---- MODULE Spec2Model ----
(***************************************************************************)
(* Model of the symbolic core of sumpy.                                    *)
(*                                                                         *)
(* Spec: the expansion basis selection (src/sumpy/expansion/__init__.py):  *)
(* the full coefficient identifiers of a volume Taylor expansion, the      *)
(* reduction of the stored identifiers by the Laplace and Helmholtz        *)
(* recurrences (precompute_coeff_matrix), and the stored_to_full /         *)
(* full_to_stored transforms.                                              *)
(* SpecTaker: the multi-index derivative takers (src/sumpy/tools.py).      *)
(* SpecKernel: the kernels and their wrappers (src/sumpy/kernel.py).       *)
(* SpecComputation: KernelComputation.__init__ (src/sumpy/tools.py).       *)
(* Each specification moves the variables of its own component and leaves  *)
(* the other components in their idle state.                               *)
(*                                                                         *)
(* Conventions.  A multi-index (Python tuple) is a TLA+ sequence of        *)
(* naturals; Python's 0-based positions become 1-based positions.  A       *)
(* matrix entry is a sympy expression in the wave-number symbol k; it is   *)
(* modelled by its value as a polynomial in k with integer coefficients:   *)
(* the sequence of its coefficients, lowest degree first, without trailing *)
(* zeros (so 0 is <<>>, 1 is <<1>>, -k*k is <<0, 0, -1>>).  None is the    *)
(* empty sequence (no vector of the program is empty, ncoeffs >= 1).       *)
(* kernel_dim is the value the expansion reads as self.kernel.dim (the     *)
(* kernels of src/sumpy/kernel.py name their dimension `dimensions`).      *)
(***************************************************************************)
EXTENDS Integers, Sequences, FiniteSets, TLC

\* ------------------------------------------------------------------ bounds
MaxOrder == 4

MaxCalls == 2

MaxMi == 2

MaxDiffCalls == 3

MaxKernels == 3

MaxComputationKernels == 2

MaxStrengthIndex == 1

\* number of threads calling into one expansion object
MaxThreads == 2

\* calls each thread makes
MaxThreadCalls == 2

\* kernels of a P2P object whose outputs are formed
MaxOutputKernels == 3

\* rows and columns of a kernel (knl.shape)
MaxShape == 2

\* P2P objects sharing the code cache
MaxObjects == 2

\* calls of get_cached_optimized_kernel
MaxCachedCalls == 3

\* keys put into an OrderedSet: 1..MaxKeys
MaxKeys == 3

\* operations on one OrderedSet
MaxSetOps == 4

\* ------------------------------------------------- symbolic coefficients
None == <<>>

Zero == <<>>

One == <<1>>

MinusOne == <<-1>>

\* -k*k for the wave-number symbol k
MinusKSquared == <<0, 0, -1>>

RECURSIVE Norm(_)
Norm(p) ==
    IF p = <<>> THEN <<>>
    ELSE IF p[Len(p)] = 0 THEN Norm(SubSeq(p, 1, Len(p) - 1))
    ELSE p

PolyCoef(p, i) == IF i <= Len(p) THEN p[i] ELSE 0

PolyAdd(p, q) ==
    LET n == IF Len(p) >= Len(q) THEN Len(p) ELSE Len(q)
    IN  Norm([i \in 1..n |-> PolyCoef(p, i) + PolyCoef(q, i)])

RECURSIVE ConvSum(_, _, _, _)
ConvSum(p, q, n, i) ==
    IF i > Len(p) THEN 0
    ELSE (IF n + 1 - i >= 1 /\ n + 1 - i <= Len(q)
             THEN p[i] * q[n + 1 - i] ELSE 0)
         + ConvSum(p, q, n, i + 1)

PolyMul(p, q) ==
    IF p = <<>> \/ q = <<>> THEN <<>>
    ELSE Norm([n \in 1..(Len(p) + Len(q) - 1) |-> ConvSum(p, q, n, 1)])

\* ---------------------------------------------------------- numpy helpers
\* np.zeros(n, dtype=object)
np_zeros(n) == [i \in 1..n |-> Zero]

\* the sum of the entries lo..hi of a sequence of coefficients
RECURSIVE SumRange(_, _, _)
SumRange(f, lo, hi) ==
    IF lo > hi THEN Zero
    ELSE IF lo = hi THEN f[lo]
    ELSE LET mid == (lo + hi) \div 2
         IN  PolyAdd(SumRange(f, lo, mid), SumRange(f, mid + 1, hi))

DotUpTo(u, v, n) == SumRange([i \in 1..n |-> PolyMul(u[i], v[i])], 1, n)

\* matrix (sequence of rows) times vector
MatVec(m, v) == [i \in 1..Len(m) |-> DotUpTo(m[i], v, Len(v))]

ColDotUpTo(m, j, v, n) ==
    SumRange([i \in 1..n |-> PolyMul(m[i][j], v[i])], 1, n)

\* np.dot(np.transpose(m), v[:Len(m)]) for rows of width ncols
TransposeVec(m, v, ncols) == [j \in 1..ncols |-> ColDotUpTo(m, j, v, Len(m))]

\* ------------------------------------------------------ full identifiers
RECURSIVE sum(_)
sum(t) == IF t = <<>> THEN 0 ELSE t[1] + sum(Tail(t))

AppendToAll(bases, i) == [b \in 1..Len(bases) |-> Append(bases[b], i)]

\* pytools.generate_nonnegative_integer_tuples_summing_to_at_most: the last
\* entry varies slowest, the first entry fastest
RECURSIVE gnitstam(_, _)
RECURSIVE gnitstam_from(_, _, _)
gnitstam(n, length) ==
    IF length = 0 THEN << <<>> >> ELSE gnitstam_from(n, length, 0)

gnitstam_from(n, length, i) ==
    IF i > n THEN <<>>
    ELSE AppendToAll(gnitstam(n - i, length - 1), i)
         \o gnitstam_from(n, length, i + 1)

\* the elements of s with key k, k + 1, ..., maxkey: key by key, and within
\* one key in the order they have in s
RECURSIVE BySumFrom(_, _, _)
BySumFrom(s, k, maxkey) ==
    IF k > maxkey THEN <<>>
    ELSE SelectSeq(s, LAMBDA t : sum(t) = k) \o BySumFrom(s, k + 1, maxkey)

MaxSum(s) ==
    CHOOSE m \in {sum(s[i]) : i \in 1..Len(s)} :
        \A i \in 1..Len(s) : sum(s[i]) <= m

\* sorted(seq, key=sum): a stable sort on a key that is a natural number
sorted_by_sum(s) ==
    IF s = <<>> THEN <<>> ELSE BySumFrom(s, 0, MaxSum(s))

\* the sort by total order is forgotten
full_coefficient_identifiers_unsorted(n, d) == gnitstam(n, d)

full_coefficient_identifiers(n, d) == sorted_by_sum(gnitstam(n, d))

\* ------------------------------------------------------ recurrence oracles
\* list.index: the first position of x, 0 when x is absent (ValueError)
index(in_terms_of, x) ==
    IF \E i \in 1..Len(in_terms_of) : in_terms_of[i] = x
    THEN CHOOSE i \in 1..Len(in_terms_of) :
            /\ in_terms_of[i] = x
            /\ \A j \in 1..(i - 1) : in_terms_of[j] # x
    ELSE 0

\* needed_deriv = reduced_deriv with += 2 at other_dim, for every
\* other_dim != dim in increasing order
other_dims(kdim, dim) ==
    SelectSeq([i \in 1..kdim |-> i], LAMBDA o : o # dim)

\* sign slip: the needed derivatives enter with +1
needed_derivs_of_plus(reduced_deriv, kdim, dim) ==
    [n \in 1..Len(other_dims(kdim, dim)) |->
        <<One,
          [reduced_deriv EXCEPT ![other_dims(kdim, dim)[n]] = @ + 2]>>]

needed_derivs_of(reduced_deriv, kdim, dim) ==
    [n \in 1..Len(other_dims(kdim, dim)) |->
        <<MinusOne,
          [reduced_deriv EXCEPT ![other_dims(kdim, dim)[n]] = @ + 2]>>]

\* for coeff, needed_deriv in needed_derivs: expr[index(needed_deriv)] = coeff
RECURSIVE fill_expr(_, _, _, _)
fill_expr(expr0, needed_derivs, in_terms_of, n) ==
    IF n > Len(needed_derivs) THEN expr0
    ELSE fill_expr(
            [expr0 EXCEPT ![index(in_terms_of, needed_derivs[n][2])] =
                needed_derivs[n][1]],
            needed_derivs, in_terms_of, n + 1)

all_found(needed_derivs, in_terms_of) ==
    \A n \in 1..Len(needed_derivs) :
        index(in_terms_of, needed_derivs[n][2]) # 0

RECURSIVE Laplace_try_from(_, _, _, _)
Laplace_try_from(deriv, in_terms_of, ncoeffs_, dim) ==
    IF dim > Len(deriv) THEN None
    ELSE IF deriv[dim] < 2
    THEN Laplace_try_from(deriv, in_terms_of, ncoeffs_, dim + 1)
    ELSE LET reduced_deriv == [deriv EXCEPT ![dim] = @ - 2]
             needed_derivs == needed_derivs_of(reduced_deriv, Len(deriv), dim)
         IN  IF all_found(needed_derivs, in_terms_of)
             THEN fill_expr(np_zeros(ncoeffs_), needed_derivs, in_terms_of, 1)
             ELSE Laplace_try_from(deriv, in_terms_of, ncoeffs_, dim + 1)

\* off by one: only axes with 2 < deriv are considered
RECURSIVE Laplace_try_strict_from(_, _, _, _)
Laplace_try_strict_from(deriv, in_terms_of, ncoeffs_, dim) ==
    IF dim > Len(deriv) THEN None
    ELSE IF deriv[dim] <= 2
    THEN Laplace_try_strict_from(deriv, in_terms_of, ncoeffs_, dim + 1)
    ELSE LET reduced_deriv == [deriv EXCEPT ![dim] = @ - 2]
             needed_derivs == needed_derivs_of(reduced_deriv, Len(deriv), dim)
         IN  IF all_found(needed_derivs, in_terms_of)
             THEN fill_expr(np_zeros(ncoeffs_), needed_derivs, in_terms_of, 1)
             ELSE Laplace_try_strict_from(deriv, in_terms_of, ncoeffs_, dim + 1)

Laplace_try_strict(deriv, in_terms_of, ncoeffs_) ==
    Laplace_try_strict_from(deriv, in_terms_of, ncoeffs_, 1)

Laplace_try_get_recurrence_for_derivative(deriv, in_terms_of, ncoeffs_) ==
    Laplace_try_from(deriv, in_terms_of, ncoeffs_, 1)

RECURSIVE Helmholtz_try_from(_, _, _, _)
Helmholtz_try_from(deriv, in_terms_of, ncoeffs_, dim) ==
    IF dim > Len(deriv) THEN None
    ELSE IF deriv[dim] < 2
    THEN Helmholtz_try_from(deriv, in_terms_of, ncoeffs_, dim + 1)
    ELSE LET reduced_deriv == [deriv EXCEPT ![dim] = @ - 2]
             needed_derivs ==
                Append(needed_derivs_of(reduced_deriv, Len(deriv), dim),
                       <<MinusKSquared, reduced_deriv>>)
         IN  IF all_found(needed_derivs, in_terms_of)
             THEN fill_expr(np_zeros(ncoeffs_), needed_derivs, in_terms_of, 1)
             ELSE Helmholtz_try_from(deriv, in_terms_of, ncoeffs_, dim + 1)

\* the -k*k term of the reduced derivative is forgotten
Helmholtz_try_without_k(deriv, in_terms_of, ncoeffs_) ==
    Laplace_try_from(deriv, in_terms_of, ncoeffs_, 1)

Helmholtz_try_get_recurrence_for_derivative(deriv, in_terms_of, ncoeffs_) ==
    Helmholtz_try_from(deriv, in_terms_of, ncoeffs_, 1)

\* ------------------------------------------------------------------ state
Plain == "VolumeTaylorExpansion"

Laplace == "LaplaceConformingVolumeTaylorExpansion"

Helmholtz == "HelmholtzConformingVolumeTaylorExpansion"

Classes == {Plain, Laplace, Helmholtz}

Dims == {2, 3}

VARIABLES
    cls,                    \* the class of the expansion object
    kernel_dim,             \* self.kernel.dim, as the expansion reads it
    order,                  \* self.order
    pc,                     \* "init", "loop" (in precompute_coeff_matrix), "done"
    full_memo,              \* memoized get_full_coefficient_identifiers
    stored_identifiers,     \* locals of precompute_coeff_matrix
    identifiers_so_far,
    ncoeffs,
    coeff_matrix,
    expr,
    self_stored_identifiers, \* self.stored_identifiers
    self_coeff_matrix,       \* self.coeff_matrix
    op,                     \* the last method called on the finished object
    arg,                    \* its argument
    result,                 \* its return value
    origin,                 \* the argument of the first call
    ncalls                  \* number of calls made

expansionVars == <<cls, kernel_dim, order, pc, full_memo, stored_identifiers,
                   identifiers_so_far, ncoeffs, coeff_matrix, expr,
                   self_stored_identifiers, self_coeff_matrix,
                   op, arg, result, origin, ncalls>>

VARIABLES
    taker_cls,              \* the class of the derivative taker
    wrangler,               \* self.wrangler (recurrence-aware taker only)
    cache_by_mi,            \* self.cache_by_mi, in insertion order
    diff_memo,              \* the memoize_method dictionary of diff
    diff_mi,                \* the argument of the last diff call
    diff_result,            \* the value it returned (if diff_status = "ok")
    diff_status,            \* "ok", or the exception it raised
    closest_mi,             \* locals of the last diff call
    next_mi,
    recurrence,
    nwrites,                \* number of cache writes of the last diff call
    repeated,               \* the last call repeated the call before it
    diff_calls              \* number of diff calls made

takerVars == <<taker_cls, wrangler, cache_by_mi, diff_memo, diff_mi,
               diff_result, diff_status, closest_mi, next_mi, recurrence,
               nwrites, repeated, diff_calls>>

VARIABLES
    assertions,             \* assert statements are executed (no -O)
    heap,                   \* the kernel objects constructed so far
    kernel_op,              \* the last operation on kernels
    kernel_args,            \* its arguments
    kernel_result           \* its return value or the exception it raised

kernelVars == <<assertions, heap, kernel_op, kernel_args, kernel_result>>

VARIABLES
    comp_args,              \* the arguments of KernelComputation.__init__
    comp_status,            \* "new", "ok", or the exception raised
    comp                    \* the attributes of the constructed object

computationVars == <<comp_args, comp_status, comp>>

VARIABLES
    t_pc,                   \* per thread: "idle", or "computing" (inside the
                            \* memoized method after a lookup that missed)
    t_op,                   \* per thread: the method of its last call
    t_arg,                  \* per thread: its argument
    t_result,               \* per thread: its return value or exception
    t_ncalls,               \* per thread: number of calls started
    n_computed              \* number of times a thread ran the body of
                            \* get_full_coefficient_identifiers

threadVars == <<t_pc, t_op, t_arg, t_result, t_ncalls, n_computed>>

VARIABLES
    out_self,               \* the P2P object: self.kernels (their shapes) and
                            \* self.strength_usage
    out_called,             \* get_outputs has been called
    out_result              \* the (exprs, scaling) it returned, or the exception

outputVars == <<out_self, out_called, out_result>>

VARIABLES
    CACHING_ENABLED,        \* sumpy.CACHING_ENABLED
    OPT_ENABLED,            \* sumpy.OPT_ENABLED
    objects,                \* the P2P objects constructed so far
    code_cache,             \* sumpy.code_cache, key -> kernel
    cached_memo,            \* per object: the memoize_method dictionary of
                            \* get_cached_optimized_kernel, kwargs -> kernel
    cache_self,             \* the object of the last call (index in objects)
    cache_kwargs,           \* its keyword arguments
    cache_result,           \* its return value or the exception it raised
    cache_read,             \* the last call looked its key up in code_cache
    cache_built,            \* the last call ran get_kernel
    cache_calls             \* number of calls made

cacheVars == <<CACHING_ENABLED, OPT_ENABLED, objects, code_cache, cached_memo,
               cache_self, cache_kwargs, cache_result, cache_read,
               cache_built, cache_calls>>

VARIABLES
    os_map,                 \* OrderedSet.map: pairs (key, node)
    os_nodes,               \* the list cells [key, prev, next] by node;
                            \* node 0 is self.end
    os_op,                  \* the last operation on the set
    os_arg,                 \* its argument
    os_result,              \* its return value or the exception it raised
    os_nops                 \* number of operations made

orderedSetVars == <<os_map, os_nodes, os_op, os_arg, os_result, os_nops>>

vars == <<expansionVars, takerVars, kernelVars, computationVars, threadVars,
          outputVars, cacheVars, orderedSetVars>>

\* the variables the expansion leaves alone
not_expansion == <<takerVars, kernelVars, computationVars, threadVars,
                   outputVars, cacheVars, orderedSetVars>>

\* the variables the derivative taker leaves alone
not_taker == <<expansionVars, kernelVars, computationVars, threadVars,
               outputVars, cacheVars, orderedSetVars>>

\* the variables the kernels leave alone
not_kernel == <<expansionVars, takerVars, computationVars, threadVars,
                outputVars, cacheVars, orderedSetVars>>

\* the variables KernelComputation leaves alone
not_computation == <<expansionVars, takerVars, kernelVars, threadVars,
                     outputVars, cacheVars, orderedSetVars>>

\* the variables the expansion and its concurrent callers leave alone
not_threads == <<takerVars, kernelVars, computationVars, outputVars,
                 cacheVars, orderedSetVars>>

\* the variables the P2P outputs leave alone
not_outputs == <<expansionVars, takerVars, kernelVars, computationVars,
                 threadVars, cacheVars, orderedSetVars>>

\* the variables the cached P2P kernels leave alone
not_cache == <<expansionVars, takerVars, kernelVars, computationVars,
               threadVars, outputVars, orderedSetVars>>

\* the variables the ordered set leave alone
not_orderedSet == <<expansionVars, takerVars, kernelVars, computationVars,
                    threadVars, outputVars, cacheVars>>

ThreadsIdle ==
    /\ t_pc = <<>>
    /\ t_op = <<>>
    /\ t_arg = <<>>
    /\ t_result = <<>>
    /\ t_ncalls = <<>>
    /\ n_computed = 0

OutputsIdle ==
    /\ out_self = <<>>
    /\ out_called = FALSE
    /\ out_result = [raised |-> "", value |-> <<>>]

CacheIdle ==
    /\ CACHING_ENABLED = FALSE
    /\ OPT_ENABLED = FALSE
    /\ objects = <<>>
    /\ code_cache = <<>>
    /\ cached_memo = <<>>
    /\ cache_self = 0
    /\ cache_kwargs = <<>>
    /\ cache_result = [raised |-> "", value |-> <<>>]
    /\ cache_read = FALSE
    /\ cache_built = FALSE
    /\ cache_calls = 0

OrderedSetIdle ==
    /\ os_map = {}
    /\ os_nodes = <<>>
    /\ os_op = "none"
    /\ os_arg = <<>>
    /\ os_result = [raised |-> "", value |-> <<>>]
    /\ os_nops = 0

TakerIdle ==
    /\ taker_cls = "none"
    /\ wrangler = "none"
    /\ cache_by_mi = <<>>
    /\ diff_memo = {}
    /\ diff_mi = <<>>
    /\ diff_result = {}
    /\ diff_status = "none"
    /\ closest_mi = <<>>
    /\ next_mi = <<>>
    /\ recurrence = <<>>
    /\ nwrites = 0
    /\ repeated = FALSE
    /\ diff_calls = 0

KernelIdle ==
    /\ assertions = TRUE
    /\ heap = <<>>
    /\ kernel_op = "none"
    /\ kernel_args = <<>>
    /\ kernel_result = [raised |-> "", value |-> <<>>]

ComputationIdle ==
    /\ comp_args = <<>>
    /\ comp_status = "none"
    /\ comp = [kernels |-> <<>>, value_dtypes |-> <<>>,
               strength_usage |-> <<>>, strength_count |-> 0]

config == <<cls, kernel_dim, order>>

locals == <<stored_identifiers, identifiers_so_far, ncoeffs, coeff_matrix, expr>>

attrs == <<self_stored_identifiers, self_coeff_matrix>>

calls == <<op, arg, result, origin, ncalls>>

try_get_recurrence_for_derivative(deriv, in_terms_of, ncoeffs_) ==
    IF cls = Laplace
    THEN Laplace_try_get_recurrence_for_derivative(deriv, in_terms_of, ncoeffs_)
    ELSE Helmholtz_try_get_recurrence_for_derivative(deriv, in_terms_of, ncoeffs_)

ExpansionIdle ==
    /\ cls = "none"
    /\ kernel_dim = 0
    /\ order = 0
    /\ pc = "none"
    /\ full_memo = None
    /\ stored_identifiers = <<>>
    /\ identifiers_so_far = <<>>
    /\ ncoeffs = 0
    /\ coeff_matrix = <<>>
    /\ expr = None
    /\ self_stored_identifiers = <<>>
    /\ self_coeff_matrix = <<>>
    /\ op = "none"
    /\ arg = <<>>
    /\ result = <<>>
    /\ origin = <<>>
    /\ ncalls = 0

Init ==
    /\ TakerIdle
    /\ KernelIdle
    /\ ComputationIdle
    /\ ThreadsIdle
    /\ OutputsIdle
    /\ CacheIdle
    /\ OrderedSetIdle
    /\ cls \in Classes
    /\ kernel_dim \in Dims
    /\ order \in 0..MaxOrder
    /\ pc = IF cls = Plain THEN "done" ELSE "init"
    /\ full_memo = None
    /\ stored_identifiers = <<>>
    /\ identifiers_so_far = <<>>
    /\ ncoeffs = 0
    /\ coeff_matrix = <<>>
    /\ expr = None
    /\ self_stored_identifiers = <<>>
    /\ self_coeff_matrix = <<>>
    /\ op = "none"
    /\ arg = <<>>
    /\ result = <<>>
    /\ origin = <<>>
    /\ ncalls = 0

\* ------------------------------------------------ precompute_coeff_matrix
\* the value the memoized method returns, and the memo it leaves
memoized_full == 
    IF full_memo = None
    THEN full_coefficient_identifiers(order, kernel_dim)
    ELSE full_memo

precompute_begin ==
    /\ pc = "init"
    /\ cls # Plain
    /\ stored_identifiers' = <<>>
    /\ identifiers_so_far' = <<>>
    /\ full_memo' = memoized_full
    /\ ncoeffs' = Len(memoized_full)
    /\ coeff_matrix' = <<>>
    /\ pc' = "loop"
    /\ UNCHANGED <<config, expr, attrs, calls, not_expansion>>

\* row[0] = 1
unit_row_first(n, pos) == [np_zeros(n) EXCEPT ![1] = One]

\* row[len(stored_identifiers) + 1] = 1
unit_row_next(n, pos) == [np_zeros(n) EXCEPT ![pos + 1] = One]

unit_row(n, pos) == [np_zeros(n) EXCEPT ![pos] = One]

\* stored_identifiers.insert(0, identifier)
stored_prepend(stored, identifier) == <<identifier>> \o stored

\* stored_identifiers.append(identifier)
stored_append(stored, identifier) == Append(stored, identifier)

recurrence_row(matrix, e, n) == TransposeVec(matrix, e, n)

precompute_iter ==
    /\ pc = "loop"
    /\ Len(identifiers_so_far) < Len(full_memo)
    /\ LET identifier == full_memo[Len(identifiers_so_far) + 1]
           e == try_get_recurrence_for_derivative(
                    identifier, identifiers_so_far, ncoeffs)
       IN  /\ expr' = e
           /\ IF e = None
              THEN /\ coeff_matrix' = Append(coeff_matrix,
                          unit_row(ncoeffs, Len(stored_identifiers) + 1))
                   /\ stored_identifiers' =
                          stored_append(stored_identifiers, identifier)
              ELSE /\ coeff_matrix' = Append(coeff_matrix,
                          recurrence_row(coeff_matrix, e, ncoeffs))
                   /\ UNCHANGED stored_identifiers
           /\ identifiers_so_far' = Append(identifiers_so_far, identifier)
    /\ UNCHANGED <<config, pc, full_memo, ncoeffs, attrs, calls, not_expansion>>

\* np.vstack(coeff_matrix)[:, :ncols]
\* [:, :ncols - 1]
truncate_short(matrix, ncols) ==
    [i \in 1..Len(matrix) |-> SubSeq(matrix[i], 1, ncols - 1)]

truncate(matrix, ncols) ==
    [i \in 1..Len(matrix) |-> SubSeq(matrix[i], 1, ncols)]

precompute_finish ==
    /\ pc = "loop"
    /\ Len(identifiers_so_far) = Len(full_memo)
    /\ self_stored_identifiers' = stored_identifiers
    /\ self_coeff_matrix' = truncate(coeff_matrix, Len(stored_identifiers))
    /\ pc' = "done"
    /\ UNCHANGED <<config, full_memo, locals, calls, not_expansion>>

\* ------------------------------------------------- methods of the object
LinearRecurrence_stored_to_full(stored_coeffs) ==
    MatVec(self_coeff_matrix, stored_coeffs)

\* an exact left inverse: the full coefficients of the stored identifiers
LinearRecurrence_full_to_stored_select(full_coeffs) ==
    [j \in 1..Len(self_stored_identifiers) |->
        full_coeffs[index(full_memo, self_stored_identifiers[j])]]

LinearRecurrence_full_to_stored(full_coeffs) ==
    TransposeVec(self_coeff_matrix, full_coeffs,
                 Len(self_stored_identifiers))

VolumeTaylor_stored_to_full(stored_coeffs) == stored_coeffs

\* full_to_stored is not aliased to stored_to_full but multiplies by the
\* (absent) coefficient matrix
VolumeTaylor_full_to_stored_matrix(full_coeffs) ==
    TransposeVec(self_coeff_matrix, full_coeffs,
                 Len(self_stored_identifiers))

VolumeTaylor_full_to_stored(full_coeffs) ==
    VolumeTaylor_stored_to_full(full_coeffs)

stored_to_full(stored_coeffs) ==
    IF cls = Plain THEN VolumeTaylor_stored_to_full(stored_coeffs)
    ELSE LinearRecurrence_stored_to_full(stored_coeffs)

full_to_stored(full_coeffs) ==
    IF cls = Plain THEN VolumeTaylor_full_to_stored(full_coeffs)
    ELSE LinearRecurrence_full_to_stored(full_coeffs)

\* the value get_coefficient_identifiers returns
coefficient_identifiers ==
    IF cls = Plain THEN memoized_full ELSE self_stored_identifiers

get_full_coefficient_identifiers ==
    /\ pc = "done"
    /\ ncalls < MaxCalls
    /\ full_memo' = memoized_full
    /\ op' = "get_full_coefficient_identifiers"
    /\ arg' = <<>>
    /\ result' = memoized_full
    /\ origin' = IF ncalls = 0 THEN <<>> ELSE origin
    /\ ncalls' = ncalls + 1
    /\ UNCHANGED <<config, pc, locals, attrs, not_expansion>>

get_coefficient_identifiers ==
    /\ pc = "done"
    /\ ncalls < MaxCalls
    /\ full_memo' = IF cls = Plain THEN memoized_full ELSE full_memo
    /\ op' = "get_coefficient_identifiers"
    /\ arg' = <<>>
    /\ result' = coefficient_identifiers
    /\ origin' = IF ncalls = 0 THEN <<>> ELSE origin
    /\ ncalls' = ncalls + 1
    /\ UNCHANGED <<config, pc, locals, attrs, not_expansion>>

\* coefficient vectors handed to the transforms
\* the unit vectors, the vector of ones, and two vectors with a negative
\* and a symbolic (the symbol k) first entry
TestScalars == {<<-2>>, <<0, 1>>}

TestVecs(n) ==
    {[i \in 1..n |-> IF i = j THEN One ELSE Zero] : j \in 1..n}
    \cup {[i \in 1..n |-> IF i = 1 THEN c ELSE Zero] : c \in TestScalars}
    \cup {[i \in 1..n |-> One]}

NFull == Len(full_coefficient_identifiers(order, kernel_dim))

NStored == IF cls = Plain THEN NFull ELSE Len(self_stored_identifiers)

\* arguments of a call: a fresh vector for the first call, afterwards the
\* vector the previous transform returned
Inputs(n) ==
    IF ncalls = 0 THEN TestVecs(n)
    ELSE IF op \in {"stored_to_full", "full_to_stored"} /\ Len(result) = n
    THEN {result}
    ELSE {}

call_stored_to_full ==
    /\ pc = "done"
    /\ ncalls < MaxCalls
    /\ \E s \in Inputs(NStored) :
        /\ op' = "stored_to_full"
        /\ arg' = s
        /\ result' = stored_to_full(s)
        /\ origin' = IF ncalls = 0 THEN s ELSE origin
    /\ ncalls' = ncalls + 1
    /\ UNCHANGED <<config, pc, full_memo, locals, attrs, not_expansion>>

call_full_to_stored ==
    /\ pc = "done"
    /\ ncalls < MaxCalls
    /\ \E c \in Inputs(NFull) :
        /\ op' = "full_to_stored"
        /\ arg' = c
        /\ result' = full_to_stored(c)
        /\ origin' = IF ncalls = 0 THEN c ELSE origin
    /\ ncalls' = ncalls + 1
    /\ UNCHANGED <<config, pc, full_memo, locals, attrs, not_expansion>>

Next ==
    \/ precompute_begin
    \/ precompute_iter
    \/ precompute_finish
    \/ get_full_coefficient_identifiers
    \/ get_coefficient_identifiers
    \/ call_stored_to_full
    \/ call_full_to_stored

Spec == Init /\ [][Next]_vars

\* ================================================================ claims
\* the identifiers of the expansion in full order
Full == full_coefficient_identifiers(order, kernel_dim)

Shift(r, j) == [r EXCEPT ![j] = @ + 2]

\* sum over the axes 1..j of v at the identifier r + 2*e_j, for a vector v
\* indexed like the list full of identifiers
RECURSIVE LaplacianAt(_, _, _, _)
LaplacianAt(v, full, r, j) ==
    IF j = 0 THEN Zero
    ELSE PolyAdd(LaplacianAt(v, full, r, j - 1),
                 v[index(full, Shift(r, j))])

Column(m, c) == [i \in 1..Len(m) |-> m[i][c]]

KSquared == <<0, 0, 1>>

Finished(c) == pc = "done" /\ cls = c

\* the positions r of the full list at which the PDE relation is stated
RelationPositions ==
    {i \in 1..Len(full_memo) : sum(full_memo[i]) <= order - 2}

\* the positions of the full list whose identifier is not stored
Reduced ==
    {i \in 1..Len(full_memo) :
        index(self_stored_identifiers, full_memo[i]) = 0}

\* C1: Laplace-conforming basis, order >= 2, dimension 2 or 3: for every
\* multi-index r of total order <= order - 2 the coeff_matrix rows of the
\* identifiers r + 2*e_j, summed over all axes j, give the zero row, and
\* every vector stored_to_full returns satisfies the same relation.
Thm_C1_LaplaceRelation ==
    (Finished(Laplace) /\ order >= 2) =>
        \A i \in RelationPositions :
            /\ \A c \in 1..Len(self_stored_identifiers) :
                  LaplacianAt(Column(self_coeff_matrix, c), full_memo,
                              full_memo[i], kernel_dim) = Zero
            /\ op = "stored_to_full" =>
                  LaplacianAt(result, full_memo, full_memo[i],
                              kernel_dim) = Zero

Wit_C1_LaplaceRelation ==
    /\ Finished(Laplace) /\ order >= 2 /\ kernel_dim = 3
    /\ op = "stored_to_full"
    /\ \E i \in Reduced : result[i] # Zero

\* C2: Helmholtz-conforming basis, order >= 2, dimension 2 or 3: for every
\* multi-index r of total order <= order - 2 the coeff_matrix rows of the
\* identifiers r + 2*e_j, summed over all axes j, plus k*k times the row of
\* r give the zero row, and so does every vector stored_to_full returns.
Thm_C2_HelmholtzRelation ==
    (Finished(Helmholtz) /\ order >= 2) =>
        \A i \in RelationPositions :
            /\ \A c \in 1..Len(self_stored_identifiers) :
                  PolyAdd(LaplacianAt(Column(self_coeff_matrix, c), full_memo,
                                      full_memo[i], kernel_dim),
                          PolyMul(KSquared, self_coeff_matrix[i][c])) = Zero
            /\ op = "stored_to_full" =>
                  PolyAdd(LaplacianAt(result, full_memo, full_memo[i],
                                      kernel_dim),
                          PolyMul(KSquared, result[i])) = Zero

Wit_C2_HelmholtzRelation ==
    /\ Finished(Helmholtz) /\ order >= 2 /\ kernel_dim = 3
    /\ op = "stored_to_full"
    /\ \E i \in Reduced : Len(result[i]) >= 3

\* C3: Laplace-conforming basis in dimension 2: for order n >= 1 exactly
\* 2n+1 identifiers are stored; for order 2 the full sequence is
\* (0,0),(1,0),(0,1),(2,0),(1,1),(0,2), five identifiers are stored, and of
\* (2,0) and (0,2) exactly the one later in the full sequence is omitted.
Thm_C3_Laplace2DStoredCount ==
    (Finished(Laplace) /\ kernel_dim = 2 /\ order >= 1) =>
        /\ Len(self_stored_identifiers) = 2 * order + 1
        /\ order = 2 =>
            /\ full_memo = << <<0, 0>>, <<1, 0>>, <<0, 1>>,
                              <<2, 0>>, <<1, 1>>, <<0, 2>> >>
            /\ Len(self_stored_identifiers) = 5
            /\ \E omitted \in {<<2, 0>>, <<0, 2>>} :
                  /\ index(self_stored_identifiers, omitted) = 0
                  /\ \A other \in {<<2, 0>>, <<0, 2>>} \ {omitted} :
                        /\ index(self_stored_identifiers, other) # 0
                        /\ index(full_memo, other) < index(full_memo, omitted)

Wit_C3_Laplace2DStoredCount ==
    /\ Finished(Laplace) /\ kernel_dim = 2 /\ order = 2
    /\ index(self_stored_identifiers, <<0, 2>>) = 0
    /\ Len(self_stored_identifiers) = 5

RECURSIVE Binomial(_, _)
Binomial(n, k) ==
    IF k = 0 THEN 1
    ELSE IF n = 0 THEN 0
    ELSE Binomial(n - 1, k - 1) + Binomial(n - 1, k)

Range(seq) == {seq[i] : i \in 1..Len(seq)}

TuplesSummingToAtMost(n, d) == {t \in [1..d -> 0..n] : sum(t) <= n}

\* C4: get_full_coefficient_identifiers() returns every d-tuple of
\* non-negative integers with sum <= order exactly once (C(order+d, d)
\* entries), in non-decreasing total order.
Thm_C4_FullIdentifiers ==
    op = "get_full_coefficient_identifiers" =>
        /\ Range(result) = TuplesSummingToAtMost(order, kernel_dim)
        /\ Len(result) = Binomial(order + kernel_dim, kernel_dim)
        /\ Cardinality(Range(result)) = Len(result)
        /\ \A i \in 1..(Len(result) - 1) :
              sum(result[i]) <= sum(result[i + 1])

Wit_C4_FullIdentifiers ==
    /\ op = "get_full_coefficient_identifiers"
    /\ order = 2 /\ kernel_dim = 3
    /\ Len(result) = 10

UnitVec(n, j) == [i \in 1..n |-> IF i = j THEN One ELSE Zero]

\* C5: after precompute_coeff_matrix coeff_matrix has len(full identifiers)
\* rows and len(stored_identifiers) columns, and the row of the j-th stored
\* identifier is the j-th unit vector.
Thm_C5_ShapeAndIdentityRows ==
    (pc = "done" /\ cls # Plain) =>
        LET full == Full
        IN  /\ Len(self_coeff_matrix) = Len(full)
            /\ \A i \in 1..Len(self_coeff_matrix) :
                  Len(self_coeff_matrix[i]) = Len(self_stored_identifiers)
            /\ \A j \in 1..Len(self_stored_identifiers) :
                  self_coeff_matrix[index(full, self_stored_identifiers[j])]
                      = UnitVec(Len(self_stored_identifiers), j)

Wit_C5_ShapeAndIdentityRows ==
    /\ pc = "done" /\ cls = Helmholtz /\ kernel_dim = 3 /\ order = 2
    /\ Len(self_coeff_matrix) = 10
    /\ Len(self_stored_identifiers) = 9

\* number of stored identifiers among the first i processed identifiers
StoredUpTo(i) ==
    Cardinality({j \in 1..i :
        index(stored_identifiers, identifiers_so_far[j]) # 0})

\* C6: while precompute_coeff_matrix runs, a recurrence refers only to rows
\* of identifiers processed before, every row is zero outside the columns of
\* the identifiers stored when the row was built, and so the truncation to
\* len(stored_identifiers) columns discards only zeros.
Thm_C6_RowsUseEarlierOnly ==
    /\ pc = "loop" =>
          /\ expr # None =>
                /\ \A i \in 1..Len(expr) :
                      expr[i] # Zero => i < Len(coeff_matrix)
                /\ coeff_matrix[Len(coeff_matrix)] =
                      [c \in 1..ncoeffs |->
                          ColDotUpTo(coeff_matrix, c, expr,
                                     Len(coeff_matrix) - 1)]
          /\ \A i \in 1..Len(coeff_matrix) :
                \A c \in 1..ncoeffs :
                   coeff_matrix[i][c] # Zero => c <= StoredUpTo(i)
    /\ (pc = "done" /\ cls # Plain) =>
          \A i \in 1..Len(coeff_matrix) :
             coeff_matrix[i] =
                self_coeff_matrix[i]
                \o np_zeros(ncoeffs - Len(self_stored_identifiers))

Wit_C6_RowsUseEarlierOnly ==
    /\ pc = "loop"
    /\ expr # None
    /\ Len(stored_identifiers) < Len(identifiers_so_far) - 1
    /\ Len(identifiers_so_far) < Len(full_memo)

\* s is a subsequence of t: its elements occur in t, once each and in the
\* same relative order
IsSubsequence(s, t) ==
    /\ \A i \in 1..Len(s) : index(t, s[i]) # 0
    /\ \A i, j \in 1..Len(s) : i < j => index(t, s[i]) < index(t, s[j])

\* C7: for every expansion class, dimension and order, the identifiers
\* get_coefficient_identifiers() returns all occur in
\* get_full_coefficient_identifiers(), without duplicates and in the same
\* relative order.
Thm_C7_StoredSubsequenceOfFull ==
    op = "get_coefficient_identifiers" =>
        LET full == Full IN IsSubsequence(result, full)

Wit_C7_StoredSubsequenceOfFull ==
    /\ op = "get_coefficient_identifiers"
    /\ cls = Laplace /\ order >= 2
    /\ Len(result) < Len(full_memo)

\* C8: a Laplace- or Helmholtz-conforming expansion of order 0 has the zero
\* multi-index as its only full and only stored identifier, the 1x1 identity
\* as reduction matrix, and no recurrence was found for the zero multi-index.
Thm_C8_OrderZero ==
    (pc = "done" /\ cls # Plain /\ order = 0) =>
        /\ full_memo = << [i \in 1..kernel_dim |-> 0] >>
        /\ self_stored_identifiers = << [i \in 1..kernel_dim |-> 0] >>
        /\ self_coeff_matrix = << <<One>> >>
        /\ expr = None

Wit_C8_OrderZero ==
    /\ pc = "done" /\ cls = Helmholtz /\ order = 0
    /\ Len(self_coeff_matrix) = 1

IsTransform(o) == o \in {"stored_to_full", "full_to_stored"}

\* C9: for the plain VolumeTaylorExpansion get_coefficient_identifiers()
\* equals get_full_coefficient_identifiers(), stored_to_full and
\* full_to_stored return their argument, and so
\* stored_to_full(full_to_stored(x)) = x.
Thm_C9_PlainIdentity ==
    cls = Plain =>
        /\ op = "get_coefficient_identifiers" => result = Full
        /\ IsTransform(op) => result = arg /\ result = origin
        /\ pc = "done" =>
              \A x \in TestVecs(NFull) :
                 stored_to_full(full_to_stored(x)) = x

Wit_C9_PlainIdentity ==
    /\ cls = Plain /\ order >= 1
    /\ op = "stored_to_full" /\ ncalls = 2
    /\ result = origin
    /\ \E i \in 1..Len(result) : result[i] # Zero

\* entry i of the product of the matrix m with the vector v
RowTimes(m, i, v) ==
    SumRange([j \in 1..Len(v) |-> PolyMul(m[i][j], v[j])], 1, Len(v))

\* entry j of the product of the transpose of m with the vector v
ColumnTimes(m, j, v) ==
    SumRange([i \in 1..Len(v) |-> PolyMul(m[i][j], v[i])], 1, Len(v))

RoundTripExact ==
    \A s \in TestVecs(NStored) : full_to_stored(stored_to_full(s)) = s

\* C10: for a Laplace- or Helmholtz-conforming basis stored_to_full(s) is
\* coeff_matrix . s and full_to_stored(c) is transpose(coeff_matrix) . c;
\* full_to_stored(stored_to_full(s)) = s holds for every s exactly when no
\* identifier is reduced, which is exactly when order <= 1.
Thm_C10_TransformsAndRoundTrip ==
    (pc = "done" /\ cls # Plain) =>
        /\ op = "stored_to_full" =>
              /\ Len(result) = Len(full_memo)
              /\ \A i \in 1..Len(full_memo) :
                    result[i] = RowTimes(self_coeff_matrix, i, arg)
        /\ op = "full_to_stored" =>
              /\ Len(result) = Len(self_stored_identifiers)
              /\ \A j \in 1..Len(self_stored_identifiers) :
                    result[j] = ColumnTimes(self_coeff_matrix, j, arg)
        /\ (order <= 1) <=> (Reduced = {})
        /\ ncalls = 0 => ((order <= 1) <=> RoundTripExact)

Wit_C10_TransformsAndRoundTrip ==
    /\ pc = "done" /\ cls # Plain /\ order >= 2
    /\ op = "full_to_stored" /\ ncalls = 2
    /\ Len(origin) = Len(result)
    /\ result # origin

\* ======================================================= derivative takers
\* The expression a taker holds is a linear combination of formal
\* derivatives of the base expression: a set of pairs <<mi, c>>, c a nonzero
\* coefficient, standing for the sum of c * (the base differentiated mi[i]
\* times by var_list[i]).  The base itself is {<<(0,...,0), 1>>}.

MiDerivativeTaker == "MiDerivativeTaker"

LinearRecurrenceBasedMiDerivativeTaker == "LinearRecurrenceBasedMiDerivativeTaker"

var_list == <<"x", "y">>

empty_mi == [i \in 1..Len(var_list) |-> 0]

\* the multi-indices diff is called with
Mis == [1..Len(var_list) -> 0..MaxMi]

\* e.diff(var_list[axis])
expr_diff(e, axis) ==
    {<<[p[1] EXCEPT ![axis] = @ + 1], p[2]>> : p \in e}

\* the coefficient of the formal derivative m in e
expr_coeff(e, m) ==
    IF \E p \in e : p[1] = m
    THEN (CHOOSE p \in e : p[1] = m)[2]
    ELSE Zero

\* Add(*(coeff * e for (coeff, e) in terms))
Add(terms) ==
    LET n == Len(terms)
        support == UNION {{p[1] : p \in terms[i][2]} : i \in 1..n}
        at(m) == SumRange([i \in 1..n |->
                     PolyMul(terms[i][1], expr_coeff(terms[i][2], m))], 1, n)
    IN  {<<m, at(m)>> : m \in {x \in support : at(x) # Zero}}

\* ---- the dictionary cache_by_mi: a sequence of <<key, value>> in the
\* ---- order of insertion
dict_keys(d) == [i \in 1..Len(d) |-> d[i][1]]

dict_has(d, key) == \E i \in 1..Len(d) : d[i][1] = key

dict_get(d, key) == d[CHOOSE i \in 1..Len(d) : d[i][1] = key][2]

\* d[key] = value
dict_set(d, key, value) ==
    IF dict_has(d, key)
    THEN [i \in 1..Len(d) |-> IF d[i][1] = key THEN <<key, value>> ELSE d[i]]
    ELSE Append(d, <<key, value>>)

mi_dist(a, b) == [i \in 1..Len(a) |-> a[i] - b[i]]

dominated_by(mi, other_mi) == \A i \in 1..Len(mi) : mi[i] >= other_mi[i]

\* key=lambda other_mi: sum(self.mi_dist(mi, other_mi))
closest_key(mi, other_mi) == sum(mi_dist(mi, other_mi))

\* min(candidates, key=...): the first candidate of least key
RECURSIVE min_from(_, _, _, _)
min_from(mi, candidates, i, best) ==
    IF i > Len(candidates) THEN best
    ELSE min_from(mi, candidates, i + 1,
                  IF closest_key(mi, candidates[i]) < closest_key(mi, best)
                  THEN candidates[i] ELSE best)

\* min keeps a later candidate of equal key
RECURSIVE min_last_from(_, _, _, _)
min_last_from(mi, candidates, i, best) ==
    IF i > Len(candidates) THEN best
    ELSE min_last_from(mi, candidates, i + 1,
                       IF closest_key(mi, candidates[i]) <= closest_key(mi, best)
                       THEN candidates[i] ELSE best)

\* ties go to the cached key inserted last
get_closest_cached_mi_last(cache, mi) ==
    LET candidates == SelectSeq(dict_keys(cache),
                                LAMBDA other_mi : dominated_by(mi, other_mi))
    IN  IF Len(candidates) = 0 THEN None
        ELSE min_last_from(mi, candidates, 2, candidates[1])

\* the search always starts from the base expression
get_closest_cached_mi_base(cache, mi) ==
    IF Len(cache) = 0 THEN None ELSE cache[1][1]

get_closest_cached_mi(cache, mi) ==
    LET candidates == SelectSeq(dict_keys(cache),
                                LAMBDA other_mi : dominated_by(mi, other_mi))
    IN  IF Len(candidates) = 0 THEN None
        ELSE min_from(mi, candidates, 2, candidates[1])

\* the steps of one axis: current_mi[idx] += 1, yield (idx, current_mi)
axis_steps(start_mi, end_mi, idx) ==
    [i \in 1..(end_mi[idx] - start_mi[idx]) |->
        <<idx, [a \in 1..Len(start_mi) |->
                   IF a < idx THEN end_mi[a]
                   ELSE IF a = idx THEN start_mi[a] + i
                   ELSE start_mi[a]]>>]

RECURSIVE derivative_taking_from(_, _, _)
derivative_taking_from(start_mi, end_mi, idx) ==
    IF idx > Len(start_mi) THEN <<>>
    ELSE axis_steps(start_mi, end_mi, idx)
         \o derivative_taking_from(start_mi, end_mi, idx + 1)

\* every step differentiates by the variable of the mirrored axis
get_derivative_taking_sequence_mirrored(start_mi, end_mi) ==
    LET steps == derivative_taking_from(start_mi, end_mi, 1)
    IN  [i \in 1..Len(steps) |->
            <<Len(start_mi) + 1 - steps[i][1], steps[i][2]>>]

\* the sequence of (axis of the variable to differentiate by, next_mi)
get_derivative_taking_sequence(start_mi, end_mi) ==
    derivative_taking_from(start_mi, end_mi, 1)

\* ---- the wrangler of the recurrence-aware taker.  It answers a relation
\* ---- {ident: coeff} for next_mi, or None.  A relation lowers one axis of
\* ---- next_mi by two: the Laplace relation has the operands lowered + 2 e_j
\* ---- (j another axis) with coefficient -1, the Helmholtz relation has in
\* ---- addition the operand `lowered` with coefficient -k*k.  The wranglers
\* ---- "Laplace" and "Helmholtz" answer only relations whose operands are
\* ---- all cached; "HelmholtzUnchecked" answers without looking at the
\* ---- cache.
Wranglers == {"Laplace", "Helmholtz", "HelmholtzUnchecked"}

relation_for(w, mi, axis) ==
    LET lowered == [mi EXCEPT ![axis] = @ - 2]
        others == SelectSeq([j \in 1..Len(mi) |-> j], LAMBDA j : j # axis)
        raised == [i \in 1..Len(others) |->
                      <<[lowered EXCEPT ![others[i]] = @ + 2], MinusOne>>]
    IN  IF w = "Laplace" THEN raised
        ELSE Append(raised, <<lowered, MinusKSquared>>)

relation_usable(w, mi, axis, cache) ==
    /\ mi[axis] >= 2
    /\ \/ w = "HelmholtzUnchecked"
       \/ LET rel == relation_for(w, mi, axis)
          IN  \A i \in 1..Len(rel) : dict_has(cache, rel[i][1])

wrangler_try_get_recurrence_for_derivative(w, mi, cache) ==
    LET usable == {axis \in 1..Len(mi) : relation_usable(w, mi, axis, cache)}
    IN  IF usable = {} THEN None
        ELSE relation_for(w, mi,
                 CHOOSE axis \in usable : \A b \in usable : axis <= b)

\* ---- the outcome of a call of diff: the cache it leaves, the value it
\* ---- returns, "ok" or the exception it raises, and its locals
Outcome(cache, value, status, closest, next, rel, n) ==
    [result |-> value, closest_mi |-> closest, next_mi |-> next,
     recurrence |-> rel, nwrites |-> n, cache |-> cache, status |-> status]

\* expr = self.cache_by_mi[mi] succeeded
diff_hit(cache, mi) ==
    Outcome(cache, dict_get(cache, mi), "ok", None, None, None, 0)

\* the loop of MiDerivativeTaker.diff from step i on
RECURSIVE MiDerivativeTaker_loop(_, _, _, _, _)
MiDerivativeTaker_loop(steps, i, cache, e, closest) ==
    IF i > Len(steps)
    THEN Outcome(cache, e, "ok", closest,
                 IF i = 1 THEN None ELSE steps[i - 1][2], None, i - 1)
    ELSE LET next_e == expr_diff(e, steps[i][1])
         IN  MiDerivativeTaker_loop(steps, i + 1,
                 dict_set(cache, steps[i][2], next_e), next_e, closest)

\* a miss returns the expression the walk started from
MiDerivativeTaker_diff_stale(cache, mi) ==
    IF dict_has(cache, mi) THEN diff_hit(cache, mi)
    ELSE LET current_mi == get_closest_cached_mi(cache, mi)
             out == MiDerivativeTaker_loop(
                        get_derivative_taking_sequence(current_mi, mi), 1,
                        cache, dict_get(cache, current_mi), current_mi)
         IN  [out EXCEPT !.result = dict_get(cache, current_mi)]

MiDerivativeTaker_diff(cache, mi) ==
    IF dict_has(cache, mi) THEN diff_hit(cache, mi)
    ELSE LET current_mi == get_closest_cached_mi(cache, mi)
         IN  MiDerivativeTaker_loop(
                 get_derivative_taking_sequence(current_mi, mi), 1,
                 cache, dict_get(cache, current_mi), current_mi)

\* the sum of the operands, without their coefficients
recurrence_expr_unweighted(rel, cache) ==
    IF \E i \in 1..Len(rel) : ~dict_has(cache, rel[i][1])
    THEN [raised |-> "KeyError", value |-> {}]
    ELSE [raised |-> "",
          value |-> Add([i \in 1..Len(rel) |->
                           <<One, dict_get(cache, rel[i][1])>>])]

\* operands missing from the cache count as zero
recurrence_expr_lenient(rel, cache) ==
    [raised |-> "",
     value |-> Add([i \in 1..Len(rel) |->
                      <<rel[i][2], IF dict_has(cache, rel[i][1])
                                   THEN dict_get(cache, rel[i][1])
                                   ELSE {}>>])]

\* Add(*tuple(coeff * self.cache_by_mi[ident] ...)): the subscript raises
\* KeyError if an operand is not cached
recurrence_expr(rel, cache) ==
    IF \E i \in 1..Len(rel) : ~dict_has(cache, rel[i][1])
    THEN [raised |-> "KeyError", value |-> {}]
    ELSE [raised |-> "",
          value |-> Add([i \in 1..Len(rel) |->
                           <<rel[i][2], dict_get(cache, rel[i][1])>>])]

\* the loop of LinearRecurrenceBasedMiDerivativeTaker.diff from step i on
RECURSIVE LinearRecurrence_loop(_, _, _, _, _, _, _)
LinearRecurrence_loop(w, steps, i, cache, e, closest, rel) ==
    IF i > Len(steps)
    THEN Outcome(cache, e, "ok", closest,
                 IF i = 1 THEN None ELSE steps[i - 1][2], rel, i - 1)
    ELSE LET r == wrangler_try_get_recurrence_for_derivative(
                      w, steps[i][2], cache)
             next_e == IF r # None THEN recurrence_expr(r, cache)
                       ELSE [raised |-> "",
                             value |-> expr_diff(e, steps[i][1])]
         IN  IF next_e.raised # ""
             THEN Outcome(cache, {}, next_e.raised, closest, steps[i][2], r,
                          i - 1)
             ELSE LinearRecurrence_loop(w, steps, i + 1,
                      dict_set(cache, steps[i][2], next_e.value),
                      next_e.value, closest, r)

\* the body of LinearRecurrenceBasedMiDerivativeTaker.diff
LinearRecurrence_diff(w, cache, mi) ==
    IF dict_has(cache, mi) THEN diff_hit(cache, mi)
    ELSE LET closest == get_closest_cached_mi(cache, mi)
         IN  LinearRecurrence_loop(w,
                 get_derivative_taking_sequence(closest, mi), 1,
                 cache, dict_get(cache, closest), closest, None)

memo_has(memo, mi) == \E p \in memo : p[1] = mi

memo_get(memo, mi) == (CHOOSE p \in memo : p[1] = mi)[2]

\* memoize_method: a memoized argument returns without running the body
memoized_diff(w, cache, memo, mi) ==
    IF memo_has(memo, mi)
    THEN Outcome(cache, memo_get(memo, mi), "ok", None, None, None, 0)
    ELSE LinearRecurrence_diff(w, cache, mi)

\* state after construction: MiDerivativeTaker(expr, var_list) or
\* LinearRecurrenceBasedMiDerivativeTaker(expr, var_list, wrangler)
InitTaker ==
    /\ ExpansionIdle
    /\ KernelIdle
    /\ ComputationIdle
    /\ ThreadsIdle
    /\ OutputsIdle
    /\ CacheIdle
    /\ OrderedSetIdle
    /\ \/ taker_cls = MiDerivativeTaker /\ wrangler = "none"
       \/ taker_cls = LinearRecurrenceBasedMiDerivativeTaker
          /\ wrangler \in Wranglers
    /\ cache_by_mi = <<<<empty_mi, {<<empty_mi, One>>}>>>>
    /\ diff_memo = {}
    /\ diff_mi = <<>>
    /\ diff_result = {}
    /\ diff_status = "none"
    /\ closest_mi = <<>>
    /\ next_mi = <<>>
    /\ recurrence = <<>>
    /\ nwrites = 0
    /\ repeated = FALSE
    /\ diff_calls = 0

\* one call taker.diff(mi)
diff_call(mi, out) ==
    /\ diff_calls < MaxDiffCalls
    /\ cache_by_mi' = out.cache
    /\ diff_mi' = mi
    /\ diff_result' = out.result
    /\ diff_status' = out.status
    /\ closest_mi' = out.closest_mi
    /\ next_mi' = out.next_mi
    /\ recurrence' = out.recurrence
    /\ nwrites' = out.nwrites
    /\ repeated' = (diff_status = "ok" /\ diff_mi = mi)
    /\ diff_calls' = diff_calls + 1
    /\ UNCHANGED <<taker_cls, wrangler, not_taker>>

MiDerivativeTaker_diff_call ==
    /\ taker_cls = MiDerivativeTaker
    /\ \E mi \in Mis :
        /\ diff_call(mi, MiDerivativeTaker_diff(cache_by_mi, mi))
        /\ UNCHANGED diff_memo

LinearRecurrence_diff_call ==
    /\ taker_cls = LinearRecurrenceBasedMiDerivativeTaker
    /\ \E mi \in Mis :
        LET out == memoized_diff(wrangler, cache_by_mi, diff_memo, mi)
        IN  /\ diff_call(mi, out)
            /\ diff_memo' = IF out.status = "ok"
                            THEN diff_memo \cup {<<mi, out.result>>}
                            ELSE diff_memo

NextTaker ==
    \/ MiDerivativeTaker_diff_call
    \/ LinearRecurrence_diff_call

SpecTaker == InitTaker /\ [][NextTaker]_vars

\* ------------------------------------------------------------------ C11
\* the base expression differentiated mi[i] times by var_list[i]
Derivative(mi) == {<<mi, One>>}

\* C11: in the plain taker every cached entry at a multi-index m is the base
\* expression differentiated exactly m[i] times by the i-th variable, and a
\* call diff(mi) returns the entry cached at mi.
Thm_C11_PlainCacheHoldsDerivatives ==
    taker_cls = MiDerivativeTaker =>
        /\ \A i \in 1..Len(cache_by_mi) :
               cache_by_mi[i][2] = Derivative(cache_by_mi[i][1])
        /\ diff_status = "ok" =>
               /\ dict_has(cache_by_mi, diff_mi)
               /\ diff_result = dict_get(cache_by_mi, diff_mi)
               /\ diff_result = Derivative(diff_mi)

\* a later call walked two or more steps, in both variables, from a cached
\* derivative that is not the base
Wit_C11_PlainCacheHoldsDerivatives ==
    /\ taker_cls = MiDerivativeTaker
    /\ diff_status = "ok"
    /\ diff_calls >= 2
    /\ nwrites >= 2
    /\ closest_mi # empty_mi
    /\ \A i \in 1..Len(var_list) : diff_mi[i] > closest_mi[i]

\* ------------------------------------------------------------------ C12
\* C12: the cache is append-only in both takers: a call of diff keeps every
\* entry (key, value and position) the cache had, every write of the call
\* adds a key that was not present, and no key is cached twice.
Thm_C12_CacheAppendOnly ==
    [][/\ Len(cache_by_mi') = Len(cache_by_mi) + nwrites'
       /\ \A i \in 1..Len(cache_by_mi) : cache_by_mi'[i] = cache_by_mi[i]
       /\ \A i, j \in 1..Len(cache_by_mi') :
              cache_by_mi'[i][1] = cache_by_mi'[j][1] => i = j]_vars

\* a call of the recurrence-aware taker raised after it had written entries
Wit_C12_CacheAppendOnly ==
    /\ taker_cls = LinearRecurrenceBasedMiDerivativeTaker
    /\ diff_status = "KeyError"
    /\ nwrites >= 1
    /\ Len(cache_by_mi) >= 3

\* ------------------------------------------------------------------ C13
\* C13: diff is idempotent: a call of diff with the multi-index of the
\* call before it, which returned a value, returns the same value and
\* leaves the cache as it was.
Thm_C13_DiffIdempotent ==
    [][(/\ diff_calls' = diff_calls + 1
        /\ diff_status = "ok"
        /\ diff_mi' = diff_mi)
       => /\ diff_status' = "ok"
          /\ diff_result' = diff_result
          /\ cache_by_mi' = cache_by_mi
          /\ nwrites' = 0]_vars

\* the second call of diff((1, 2)) in the recurrence-aware taker
Wit_C13_DiffIdempotent ==
    /\ repeated
    /\ taker_cls = LinearRecurrenceBasedMiDerivativeTaker
    /\ diff_status = "ok"
    /\ diff_mi = <<1, 2>>
    /\ diff_calls = 2

\* ------------------------------------------------------------------ C14
Position(keys, key) == CHOOSE i \in 1..Len(keys) : keys[i] = key

Manhattan(a, b) == sum(mi_dist(a, b))

\* C14: for every multi-index, get_closest_cached_mi returns a cached key
\* that is componentwise at most the multi-index, of least Manhattan
\* distance among such keys and, among those of least distance, the first
\* in the iteration (insertion) order of the cache; one exists because the
\* all-zero multi-index is cached from the start.
Thm_C14_ClosestCachedMi ==
    Len(cache_by_mi) > 0 =>
        /\ cache_by_mi[1][1] = empty_mi
        /\ \A mi \in Mis :
            LET keys == dict_keys(cache_by_mi)
                c == get_closest_cached_mi(cache_by_mi, mi)
            IN  /\ \E i \in 1..Len(keys) : keys[i] = c
                /\ dominated_by(mi, c)
                /\ \A j \in 1..Len(keys) :
                       dominated_by(mi, keys[j]) =>
                           \/ Manhattan(mi, c) < Manhattan(mi, keys[j])
                           \/ /\ Manhattan(mi, c) = Manhattan(mi, keys[j])
                              /\ Position(keys, c) <= j

\* diff((1, 1)) found (1, 0) and (0, 1) cached, at the same distance, and
\* started from (1, 0), which was inserted first
Wit_C14_ClosestCachedMi ==
    /\ diff_mi = <<1, 1>>
    /\ diff_status = "ok"
    /\ closest_mi = <<1, 0>>
    /\ nwrites = 1
    /\ dict_has(cache_by_mi, <<0, 1>>)
    /\ LET keys == dict_keys(cache_by_mi)
       IN  /\ Position(keys, <<1, 0>>) < Position(keys, <<0, 1>>)
           /\ Position(keys, <<0, 1>>) < Position(keys, <<1, 1>>)

\* ------------------------------------------------------------------ C15
\* C15: in the recurrence-aware taker, when the relation the wrangler
\* answered for a new multi-index names an operand that is not cached, the
\* call of diff fails with KeyError and no value is cached for that
\* multi-index (nor for the multi-index diff was called with).
Thm_C15_MissingOperandFails ==
    (/\ taker_cls = LinearRecurrenceBasedMiDerivativeTaker
     /\ recurrence # None
     /\ \E i \in 1..Len(recurrence) :
            ~dict_has(cache_by_mi, recurrence[i][1]))
    => /\ diff_status = "KeyError"
       /\ ~dict_has(cache_by_mi, next_mi)
       /\ ~dict_has(cache_by_mi, diff_mi)
       /\ ~memo_has(diff_memo, diff_mi)

\* a later call started from a cached derivative and failed on a relation
\* with a missing operand
Wit_C15_MissingOperandFails ==
    /\ diff_status = "KeyError"
    /\ recurrence # None
    /\ \E i \in 1..Len(recurrence) : ~dict_has(cache_by_mi, recurrence[i][1])
    /\ diff_calls >= 2
    /\ closest_mi # empty_mi

\* ================================================================= kernels
\* A kernel object is a record on the heap; a reference to it is its index.
\* A reference field a class does not set holds 0, an unset axis -1.  An
\* expression is the sequence of the operations that built it.

LaplaceKernel == "LaplaceKernel"

HelmholtzKernel == "HelmholtzKernel"

DifferenceKernel == "DifferenceKernel"

AxisTargetDerivative == "AxisTargetDerivative"

DirectionalTargetDerivative == "DirectionalTargetDerivative"

DirectionalSourceDerivative == "DirectionalSourceDerivative"

\* the subclasses of KernelWrapper
KernelWrappers ==
    {AxisTargetDerivative, DirectionalTargetDerivative,
     DirectionalSourceDerivative}

\* dimensions=None
NoDimension == -1

\* the dimensions kernels are constructed with
KernelDims == {NoDimension, 1, 2, 3}

\* the axes of AxisTargetDerivative
Axes == {0, 1}

\* the lengths of dist_vec, avec and bvec
VecLens == {1, 2, 3}

Object(c, dimensions, kernel, plus, minus, axis) ==
    [cls |-> c, axis |-> axis, dimensions |-> dimensions, kernel |-> kernel,
     kernel_plus |-> plus, kernel_minus |-> minus]

Return(value) == [raised |-> "", value |-> value]

Raise(exception) == [raised |-> exception, value |-> <<>>]

RECURSIVE get_base_kernel(_, _)
get_base_kernel(h, i) ==
    IF h[i].cls \in KernelWrappers THEN get_base_kernel(h, h[i].kernel)
    ELSE i

\* object.__eq__: Kernel defines no __eq__, == is identity
Kernel_eq(a, b) == a = b

\* object.__hash__: derived from the identity of the object
Kernel_hash(a) == a

\* ExpansionBase.__eq__ of two expansions given as <<type, kernel, order>>
ExpansionBase_eq(self, other) ==
    /\ self[1] = other[1]
    /\ Kernel_eq(self[2], other[2])
    /\ self[3] = other[3]

\* the assert is skipped
dist_vec_assert_skipped(assert_on, dimensions, n) == TRUE

\* the assert statement of get_expression passes
dist_vec_assert(assert_on, dimensions, n) == assert_on => dimensions = n

PDE_get_expression(assert_on, dimensions, n, in2d, in3d) ==
    IF ~dist_vec_assert(assert_on, dimensions, n) THEN Raise("AssertionError")
    ELSE IF dimensions = 2 THEN Return(<<<<in2d, n>>>>)
    ELSE IF dimensions = 3 THEN Return(<<<<in3d, n>>>>)
    ELSE Raise("RuntimeError")

RECURSIVE get_expression(_, _, _, _)
get_expression(assert_on, h, i, n) ==
    IF h[i].cls = LaplaceKernel
    THEN PDE_get_expression(assert_on, h[i].dimensions, n, "log(r)", "1/r")
    ELSE IF h[i].cls = HelmholtzKernel
    THEN PDE_get_expression(assert_on, h[i].dimensions, n,
                            "hankel_1(0, k*r)", "exp(I*k*r)/r")
    ELSE IF h[i].cls \in KernelWrappers
    THEN get_expression(assert_on, h, h[i].kernel, n)
    ELSE Raise("NotImplementedError")

PDE_get_scaling(dimensions, in2d, in3d) ==
    IF dimensions = 2 THEN Return(<<<<in2d, 0>>>>)
    ELSE IF dimensions = 3 THEN Return(<<<<in3d, 0>>>>)
    ELSE Raise("RuntimeError")

RECURSIVE get_scaling(_, _)
get_scaling(h, i) ==
    IF h[i].cls = LaplaceKernel
    THEN PDE_get_scaling(h[i].dimensions, "1/(-2*pi)", "1/(4*pi)")
    ELSE IF h[i].cls = HelmholtzKernel
    THEN PDE_get_scaling(h[i].dimensions, "I/4", "1/(4*pi)")
    ELSE IF h[i].cls \in KernelWrappers
    THEN get_scaling(h, h[i].kernel)
    ELSE Raise("NotImplementedError")

\* the operands are unwrapped and the dimensions are not compared
DifferenceKernel_accepts_any_dimensions(h, plus, minus) ==
    IF get_base_kernel(h, plus) # plus \/ get_base_kernel(h, minus) # minus
    THEN Raise("ValueError")
    ELSE Return(<<Object(DifferenceKernel, h[plus].dimensions, 0,
                         plus, minus, -1)>>)

\* DifferenceKernel(plus, minus): the new object, or the exception
DifferenceKernel_init(h, plus, minus) ==
    IF get_base_kernel(h, plus) # plus \/ get_base_kernel(h, minus) # minus
    THEN Raise("ValueError")
    ELSE IF h[plus].dimensions # h[minus].dimensions
    THEN Raise("ValueError")
    ELSE Return(<<Object(DifferenceKernel, h[plus].dimensions, 0,
                         plus, minus, -1)>>)

\* the body of a directional derivative after the inner post-processing:
\* the assert, then the read of self.dir_vec_name, which no class sets
directional_body(assert_on, dimensions, n) ==
    IF assert_on /\ n # dimensions THEN Raise("AssertionError")
    ELSE Raise("AttributeError")

RECURSIVE postprocess_at_target(_, _, _, _)
postprocess_at_target(assert_on, h, i, n) ==
    IF h[i].cls \notin KernelWrappers THEN Return(<<>>)
    ELSE LET e == postprocess_at_target(assert_on, h, h[i].kernel, n)
         IN  IF e.raised # "" THEN e
             ELSE IF h[i].cls = AxisTargetDerivative
             THEN IF h[i].axis >= n THEN Raise("IndexError")
                  ELSE Return(Append(e.value, <<"diff(b[axis])", h[i].axis>>))
             ELSE IF h[i].cls = DirectionalTargetDerivative
             THEN directional_body(assert_on, h[i].dimensions, n)
             ELSE e

RECURSIVE postprocess_at_source(_, _, _, _)
postprocess_at_source(assert_on, h, i, n) ==
    IF h[i].cls \notin KernelWrappers THEN Return(<<>>)
    ELSE LET e == postprocess_at_source(assert_on, h, h[i].kernel, n)
         IN  IF e.raised # "" THEN e
             ELSE IF h[i].cls = DirectionalSourceDerivative
             THEN directional_body(assert_on, h[i].dimensions, n)
             ELSE e

\* ---- construction.  A wrapper is built around the newest kernel.
newest == Len(heap)

Constructors ==
    {LaplaceKernel, HelmholtzKernel, DifferenceKernel, AxisTargetDerivative,
     DirectionalTargetDerivative, DirectionalSourceDerivative}

\* the expansions compared with the expansion <<type, kernel, order>> =
\* <<"VolumeTaylorExpansion", newest kernel, 1>> by ExpansionBase.__eq__
Expansions(kernels) ==
    {<<"VolumeTaylorExpansion", 1>>, <<"VolumeTaylorExpansion", 2>>,
     <<"LaplaceConformingVolumeTaylorExpansion", 1>>} \X kernels

\* no kernel constructed yet; assertions are a choice of the interpreter
InitKernel ==
    /\ ExpansionIdle
    /\ TakerIdle
    /\ ComputationIdle
    /\ ThreadsIdle
    /\ OutputsIdle
    /\ CacheIdle
    /\ OrderedSetIdle
    /\ assertions \in BOOLEAN
    /\ heap = <<>>
    /\ kernel_op = "none"
    /\ kernel_args = <<>>
    /\ kernel_result = Return(<<>>)

\* a constructor call: the new object is allocated unless it raised
construct(c, args, out) ==
    /\ Len(heap) < MaxKernels
    /\ kernel_op' = c
    /\ kernel_args' = args
    /\ IF out.raised # ""
       THEN /\ heap' = heap
            /\ kernel_result' = out
       ELSE /\ heap' = Append(heap, out.value[1])
            /\ kernel_result' = Return(<<Len(heap) + 1>>)
    /\ UNCHANGED <<assertions, not_kernel>>

new_LaplaceKernel ==
    \E d \in KernelDims :
        construct(LaplaceKernel, <<d>>,
                  Return(<<Object(LaplaceKernel, d, 0, 0, 0, -1)>>))

new_HelmholtzKernel ==
    \E d \in KernelDims :
        construct(HelmholtzKernel, <<d>>,
                  Return(<<Object(HelmholtzKernel, d, 0, 0, 0, -1)>>))

new_DifferenceKernel ==
    \E plus, minus \in 1..Len(heap) :
        construct(DifferenceKernel, <<plus, minus>>,
                  DifferenceKernel_init(heap, plus, minus))

new_AxisTargetDerivative ==
    \E axis \in Axes, k \in {newest} \ {0} :
        construct(AxisTargetDerivative, <<axis, k>>,
                  Return(<<Object(AxisTargetDerivative, heap[k].dimensions,
                                  k, 0, 0, axis)>>))

new_DirectionalTargetDerivative ==
    \E k \in {newest} \ {0} :
        construct(DirectionalTargetDerivative, <<k>>,
                  Return(<<Object(DirectionalTargetDerivative,
                                  heap[k].dimensions, k, 0, 0, -1)>>))

new_DirectionalSourceDerivative ==
    \E k \in {newest} \ {0} :
        construct(DirectionalSourceDerivative, <<k>>,
                  Return(<<Object(DirectionalSourceDerivative,
                                  heap[k].dimensions, k, 0, 0, -1)>>))

\* ---- calls.  They read the heap and leave it alone, so one call after
\* ---- each construction, on the newest kernel, shows all there is to see.
call(name, args, out) ==
    /\ newest >= 1
    /\ kernel_op \in Constructors
    /\ kernel_op' = name
    /\ kernel_args' = args
    /\ kernel_result' = out
    /\ UNCHANGED <<assertions, heap, not_kernel>>

call_eq ==
    \E other \in 1..Len(heap) :
        call("__eq__", <<newest, other>>, Return(<<Kernel_eq(newest, other)>>))

call_hash ==
    \E other \in 1..Len(heap) :
        call("__hash__", <<newest, other>>,
             Return(<<Kernel_hash(newest), Kernel_hash(other)>>))

call_ExpansionBase_eq ==
    \E e \in Expansions(1..Len(heap)) :
        LET self == <<"VolumeTaylorExpansion", newest, 1>>
            other == <<e[1][1], e[2], e[1][2]>>
        IN  call("ExpansionBase.__eq__", <<self, other>>,
                 Return(<<ExpansionBase_eq(self, other)>>))

call_get_expression ==
    \E n \in VecLens :
        call("get_expression", <<newest, n>>,
             get_expression(assertions, heap, newest, n))

call_get_scaling ==
    call("get_scaling", <<newest>>, get_scaling(heap, newest))

call_postprocess_at_target ==
    \E n \in VecLens :
        call("postprocess_at_target", <<newest, n>>,
             postprocess_at_target(assertions, heap, newest, n))

call_postprocess_at_source ==
    \E n \in VecLens :
        call("postprocess_at_source", <<newest, n>>,
             postprocess_at_source(assertions, heap, newest, n))

NextKernel ==
    \/ new_LaplaceKernel
    \/ new_HelmholtzKernel
    \/ new_DifferenceKernel
    \/ new_AxisTargetDerivative
    \/ new_DirectionalTargetDerivative
    \/ new_DirectionalSourceDerivative
    \/ call_eq
    \/ call_hash
    \/ call_ExpansionBase_eq
    \/ call_get_expression
    \/ call_get_scaling
    \/ call_postprocess_at_target
    \/ call_postprocess_at_source

SpecKernel == InitKernel /\ [][NextKernel]_vars

\* ------------------------------------------------------------------ C16
\* the same variant built from the same constructor arguments, recursively
RECURSIVE SameConstruction(_, _, _)
SameConstruction(h, a, b) ==
    /\ h[a].cls = h[b].cls
    /\ h[a].dimensions = h[b].dimensions
    /\ h[a].axis = h[b].axis
    /\ h[a].cls \in KernelWrappers =>
           SameConstruction(h, h[a].kernel, h[b].kernel)
    /\ h[a].cls = DifferenceKernel =>
           /\ SameConstruction(h, h[a].kernel_plus, h[b].kernel_plus)
           /\ SameConstruction(h, h[a].kernel_minus, h[b].kernel_minus)

\* C16: two kernels compare equal, and hash equal, if and only if they are
\* the same variant built from the same constructor arguments, recursively
\* through wrappers, and two expansions of the same type and order built on
\* such kernels are equal under ExpansionBase.__eq__.
Claim_C16_StructuralEquality ==
    /\ kernel_op = "__eq__" =>
           (kernel_result.value[1]
               <=> SameConstruction(heap, kernel_args[1], kernel_args[2]))
    /\ kernel_op = "__hash__" =>
           (SameConstruction(heap, kernel_args[1], kernel_args[2])
               => kernel_result.value[1] = kernel_result.value[2])
    /\ kernel_op = "ExpansionBase.__eq__" =>
           (kernel_result.value[1]
               <=> /\ kernel_args[1][1] = kernel_args[2][1]
                   /\ kernel_args[1][3] = kernel_args[2][3]
                   /\ SameConstruction(heap, kernel_args[1][2],
                                       kernel_args[2][2]))

\* ------------------------------------------------------------------ C17
\* the call was made on a LaplaceKernel or a HelmholtzKernel
OnPDEKernel(name) ==
    /\ kernel_op = name
    /\ heap[kernel_args[1]].cls \in {LaplaceKernel, HelmholtzKernel}

\* C17 as stated: get_expression and get_scaling of a Laplace or Helmholtz
\* kernel fail with the unsupported-dimension error (RuntimeError) whenever
\* the dimension is not 2 or 3, a dimension never fixed included, and return
\* a value when it is 2 or 3 and the displacement vector has that length.
Claim_C17_UnsupportedDimension ==
    /\ OnPDEKernel("get_scaling") =>
           LET d == heap[kernel_args[1]].dimensions
           IN  IF d \in {2, 3} THEN kernel_result.raised = ""
               ELSE kernel_result.raised = "RuntimeError"
    /\ OnPDEKernel("get_expression") =>
           LET d == heap[kernel_args[1]].dimensions
           IN  /\ d \notin {2, 3} => kernel_result.raised = "RuntimeError"
               /\ (d \in {2, 3} /\ kernel_args[2] = d) =>
                      kernel_result.raised = ""

\* C17 amended: get_scaling raises RuntimeError whenever the dimension is
\* not 2 or 3 (never fixed included) and returns a value otherwise.
\* get_expression returns a value when the dimension is 2 or 3 and the
\* displacement vector has that length; when the dimension is not 2 or 3 it
\* always fails, with AssertionError if assertions are enabled and the
\* length of the vector differs from the dimension (always so for a
\* dimension never fixed), and with RuntimeError otherwise.
Thm_C17_UnsupportedDimension ==
    /\ OnPDEKernel("get_scaling") =>
           LET d == heap[kernel_args[1]].dimensions
           IN  IF d \in {2, 3}
               THEN kernel_result.raised = "" /\ Len(kernel_result.value) = 1
               ELSE kernel_result.raised = "RuntimeError"
    /\ OnPDEKernel("get_expression") =>
           LET d == heap[kernel_args[1]].dimensions
               n == kernel_args[2]
           IN  /\ (d \in {2, 3} /\ n = d) =>
                      /\ kernel_result.raised = ""
                      /\ Len(kernel_result.value) = 1
               /\ d \notin {2, 3} =>
                      kernel_result.raised =
                          IF assertions /\ n # d THEN "AssertionError"
                          ELSE "RuntimeError"

\* get_expression of a HelmholtzKernel whose dimension was never fixed
\* failed on the assert, not with the unsupported-dimension error
Wit_C17_UnsupportedDimension ==
    /\ OnPDEKernel("get_expression")
    /\ heap[kernel_args[1]].cls = HelmholtzKernel
    /\ heap[kernel_args[1]].dimensions = NoDimension
    /\ assertions
    /\ kernel_result.raised = "AssertionError"

\* ------------------------------------------------------------------ C18
IsWrapped(h, i) == h[i].cls \in KernelWrappers

\* C18: DifferenceKernel(plus, minus) is rejected with an error (ValueError)
\* if and only if the operands have different dimensions or one of them is
\* a wrapped kernel; when accepted, the dimension of the difference kernel
\* is the common dimension of its operands.
Thm_C18_DifferenceKernel ==
    kernel_op = DifferenceKernel =>
        LET plus == kernel_args[1]
            minus == kernel_args[2]
        IN  /\ kernel_result.raised = "ValueError"
                   <=> \/ heap[plus].dimensions # heap[minus].dimensions
                       \/ IsWrapped(heap, plus)
                       \/ IsWrapped(heap, minus)
            /\ kernel_result.raised \in {"", "ValueError"}
            /\ kernel_result.raised = "" =>
                   LET new == heap[kernel_result.value[1]]
                   IN  /\ kernel_result.value[1] = Len(heap)
                       /\ new.cls = DifferenceKernel
                       /\ new.kernel_plus = plus
                       /\ new.kernel_minus = minus
                       /\ new.dimensions = heap[plus].dimensions
                       /\ new.dimensions = heap[minus].dimensions

\* the difference of two distinct two-dimensional kernels, the second a
\* difference kernel itself, was accepted
Wit_C18_DifferenceKernel ==
    /\ kernel_op = DifferenceKernel
    /\ kernel_result.raised = ""
    /\ kernel_args[1] # kernel_args[2]
    /\ heap[kernel_args[2]].cls = DifferenceKernel
    /\ heap[Len(heap)].dimensions = 2

\* ------------------------------------------------------------------ C19
\* the expression the claim expects of postprocess_at_target
RECURSIVE ExpectedAtTarget(_, _, _)
ExpectedAtTarget(h, i, n) ==
    IF h[i].cls \notin KernelWrappers THEN <<>>
    ELSE LET inner == ExpectedAtTarget(h, h[i].kernel, n)
         IN  IF h[i].cls = AxisTargetDerivative
             THEN Append(inner, <<"diff(b[axis])", h[i].axis>>)
             ELSE IF h[i].cls = DirectionalTargetDerivative
             THEN Append(inner, <<"sum(dir[axis]*diff(b[axis]))", n>>)
             ELSE inner

\* the expression the claim expects of postprocess_at_source
RECURSIVE ExpectedAtSource(_, _, _)
ExpectedAtSource(h, i, n) ==
    IF h[i].cls \notin KernelWrappers THEN <<>>
    ELSE LET inner == ExpectedAtSource(h, h[i].kernel, n)
         IN  IF h[i].cls = DirectionalSourceDerivative
             THEN Append(inner, <<"sum(-dir[axis]*diff(a[axis]))", n>>)
             ELSE inner

\* every axis derivative of the chain names an axis of a vector of length n
RECURSIVE AxesWithin(_, _, _)
AxesWithin(h, i, n) ==
    h[i].cls \in KernelWrappers =>
        /\ h[i].cls = AxisTargetDerivative => h[i].axis < n
        /\ AxesWithin(h, h[i].kernel, n)

\* the call passed a vector of the kernel's dimension that has every axis
\* the chain differentiates by
ValidPostprocess(name) ==
    /\ kernel_op = name
    /\ kernel_args[2] = heap[kernel_args[1]].dimensions
    /\ AxesWithin(heap, kernel_args[1], kernel_args[2])

\* C19: for a chain of derivative wrappers around a base kernel, called with
\* a vector of the kernel's dimension, each wrapper applies its derivative
\* on its own side only and after the inner kernel's post-processing: the
\* axis derivative one diff by b[axis] at the target, the directional target
\* derivative sum dir[axis]*d/db[axis] at the target, the directional source
\* derivative -sum dir[axis]*d/da[axis] at the source.
Claim_C19_DerivativeWrappers ==
    /\ ValidPostprocess("postprocess_at_target") =>
           /\ kernel_result.raised = ""
           /\ kernel_result.value =
                  ExpectedAtTarget(heap, kernel_args[1], kernel_args[2])
    /\ ValidPostprocess("postprocess_at_source") =>
           /\ kernel_result.raised = ""
           /\ kernel_result.value =
                  ExpectedAtSource(heap, kernel_args[1], kernel_args[2])

\* ======================================================= KernelComputation
\* An optional argument is None or <<value>>.  A kernel of the list is the
\* name of its class; a dtype is its name.

Some(v) == <<v>>

\* the sequences over S of length at most n
RECURSIVE SeqsUpTo(_, _)
SeqsUpTo(S, n) ==
    IF n = 0 THEN {<<>>}
    ELSE LET shorter == SeqsUpTo(S, n - 1)
         IN  shorter \cup {Append(l, x) : l \in shorter, x \in S}

\* the arguments KernelComputation.__init__ is called with: the class of
\* self (P2P defines default_name, KernelComputation does not), kernels,
\* strength_usage, value_dtypes (None, one dtype, or a list of one dtype)
\* and name
ComputationArgs ==
    [cls : {"KernelComputation", "P2P"},
     kernels : SeqsUpTo({LaplaceKernel, HelmholtzKernel, DifferenceKernel},
                        MaxComputationKernels),
     value_dtypes : {"None", "dtype", "list"},
     strength_usage : {None} \cup
         {Some(l) : l \in SeqsUpTo(0..MaxStrengthIndex,
                                   MaxComputationKernels + 1)},
     name : {None, Some("name")}]

\* max(l) of an empty list is 0
py_max_or_zero(l) ==
    IF Len(l) = 0 THEN Return(<<0>>)
    ELSE Return(<<CHOOSE m \in {l[i] : i \in 1..Len(l)} :
                      \A i \in 1..Len(l) : l[i] <= m>>)

\* max(l): ValueError on an empty list
py_max(l) ==
    IF Len(l) = 0 THEN Raise("ValueError")
    ELSE Return(<<CHOOSE m \in {l[i] : i \in 1..Len(l)} :
                      \A i \in 1..Len(l) : l[i] <= m>>)

\* knl.is_complex_valued is a class attribute of the PDE kernels only
has_is_complex_valued(knl) == knl \in {LaplaceKernel, HelmholtzKernel}

is_complex_valued(knl) == knl = HelmholtzKernel

\* process value_dtypes
process_value_dtypes(kernels, value_dtypes) ==
    IF value_dtypes = "None"
    THEN IF \E i \in 1..Len(kernels) : ~has_is_complex_valued(kernels[i])
         THEN Raise("AttributeError")
         ELSE Return([i \in 1..Len(kernels) |->
                         IF is_complex_valued(kernels[i]) THEN "complex128"
                         ELSE "float64"])
    ELSE IF value_dtypes = "dtype"
    THEN Return([i \in 1..Len(kernels) |-> "float64"])
    ELSE Return(<<"complex128">>)

\* process strength_usage
process_strength_usage(kernels, strength_usage) ==
    LET usage == IF strength_usage = None
                 THEN [i \in 1..Len(kernels) |-> 0]
                 ELSE strength_usage[1]
    IN  IF Len(kernels) # Len(usage) THEN Raise("ValueError")
        ELSE LET m == py_max(usage)
             IN  IF m.raised # "" THEN m
                 ELSE Return(<<usage, m.value[1] + 1>>)

\* the outcome of KernelComputation.__init__(ctx, kernels, strength_usage,
\* value_dtypes, name): the exception raised, or the attributes set
KernelComputation_init(a) ==
    LET dtypes == process_value_dtypes(a.kernels, a.value_dtypes)
        usage == process_strength_usage(a.kernels, a.strength_usage)
    IN  IF dtypes.raised # "" THEN dtypes
        ELSE IF usage.raised # "" THEN usage
        ELSE IF a.name = None /\ a.cls = "KernelComputation"
        THEN Raise("AttributeError")
        ELSE Return(<<[kernels |-> a.kernels,
                       value_dtypes |-> dtypes.value,
                       strength_usage |-> usage.value[1],
                       strength_count |-> usage.value[2]]>>)

InitComputation ==
    /\ ExpansionIdle
    /\ TakerIdle
    /\ KernelIdle
    /\ ThreadsIdle
    /\ OutputsIdle
    /\ CacheIdle
    /\ OrderedSetIdle
    /\ comp_args = <<>>
    /\ comp_status = "new"
    /\ comp = [kernels |-> <<>>, value_dtypes |-> <<>>,
               strength_usage |-> <<>>, strength_count |-> 0]

construct_KernelComputation ==
    /\ comp_status = "new"
    /\ \E a \in ComputationArgs :
        LET out == KernelComputation_init(a)
        IN  /\ comp_args' = <<a>>
            /\ comp_status' = IF out.raised = "" THEN "ok" ELSE out.raised
            /\ comp' = IF out.raised = "" THEN out.value[1] ELSE comp
    /\ UNCHANGED not_computation

NextComputation == construct_KernelComputation

SpecComputation == InitComputation /\ [][NextComputation]_vars

\* ------------------------------------------------------------------ C20
\* strength_usage with the default filled in
EffectiveUsage(a) ==
    IF a.strength_usage = None THEN [i \in 1..Len(a.kernels) |-> 0]
    ELSE a.strength_usage[1]

\* the constructor was called with arguments whose value_dtypes and name
\* can be processed: every kernel has is_complex_valued or value_dtypes is
\* given, and a name is given or the class has a default_name
Constructed ==
    /\ comp_status # "new"
    /\ LET a == comp_args[1]
       IN  /\ \/ a.value_dtypes # "None"
              \/ \A i \in 1..Len(a.kernels) :
                     a.kernels[i] # DifferenceKernel
           /\ a.name # None \/ a.cls = "P2P"

\* on acceptance strength_count = 1 + max(strength_usage), so every index
\* is below strength_count
StrengthCountIsMaxPlusOne ==
    /\ comp.strength_usage = EffectiveUsage(comp_args[1])
    /\ \E i \in 1..Len(comp.strength_usage) :
           comp.strength_count = 1 + comp.strength_usage[i]
    /\ \A i \in 1..Len(comp.strength_usage) :
           comp.strength_usage[i] < comp.strength_count

Threads == 1..MaxThreads

\* identifiers handed to get_storage_index: the first two and the last of
\* the full list, and one of order + 1
StorageArgs ==
    {Full[n] : n \in {1, 2, Len(Full)} \cap DOMAIN Full}
    \cup {[d \in 1..kernel_dim |-> IF d = 1 THEN order + 1 ELSE 0]}

InitThreads ==
    /\ TakerIdle
    /\ KernelIdle
    /\ ComputationIdle
    /\ OutputsIdle
    /\ CacheIdle
    /\ OrderedSetIdle
    /\ cls \in Classes
    /\ kernel_dim \in Dims
    /\ order \in 0..MaxOrder
    /\ pc = IF cls = Plain THEN "done" ELSE "init"
    /\ full_memo = None
    /\ stored_identifiers = <<>>
    /\ identifiers_so_far = <<>>
    /\ ncoeffs = 0
    /\ coeff_matrix = <<>>
    /\ expr = None
    /\ self_stored_identifiers = <<>>
    /\ self_coeff_matrix = <<>>
    /\ op = "none"
    /\ arg = <<>>
    /\ result = <<>>
    /\ origin = <<>>
    /\ ncalls = 0
    /\ t_pc = [t \in Threads |-> "idle"]
    /\ t_op = [t \in Threads |-> "none"]
    /\ t_arg = [t \in Threads |-> <<>>]
    /\ t_result = [t \in Threads |-> Return(<<>>)]
    /\ t_ncalls = [t \in Threads |-> 0]
    /\ n_computed = 0

\* a thread enters a method of the finished object
enter(t, method, argument) ==
    /\ pc = "done"
    /\ t_pc[t] = "idle"
    /\ t_ncalls[t] < MaxThreadCalls
    /\ t_op' = [t_op EXCEPT ![t] = method]
    /\ t_arg' = [t_arg EXCEPT ![t] = argument]
    /\ t_ncalls' = [t_ncalls EXCEPT ![t] = @ + 1]

\* the lookup of the memoize_method wrapper: a hit returns the stored list,
\* a miss leaves the thread in front of the method body
memoize_lookup(t) ==
    IF full_memo # None
    THEN /\ t_result' = [t_result EXCEPT ![t] = Return(full_memo)]
         /\ t_pc' = t_pc
    ELSE /\ t_result' = t_result
         /\ t_pc' = [t_pc EXCEPT ![t] = "computing"]

thread_get_full_coefficient_identifiers(t) ==
    /\ enter(t, "get_full_coefficient_identifiers", <<>>)
    /\ memoize_lookup(t)
    /\ UNCHANGED <<expansionVars, n_computed, not_threads>>

\* VolumeTaylorExpansion: the same memoized function under another name;
\* the recurrence based classes return self.stored_identifiers
thread_get_coefficient_identifiers(t) ==
    /\ enter(t, "get_coefficient_identifiers", <<>>)
    /\ IF cls = Plain
       THEN memoize_lookup(t)
       ELSE /\ t_result' = [t_result EXCEPT
                                ![t] = Return(self_stored_identifiers)]
            /\ t_pc' = t_pc
    /\ UNCHANGED <<expansionVars, n_computed, not_threads>>

\* the method body and the store of the wrapper, after a miss
thread_compute_and_store(t) ==
    /\ t_pc[t] = "computing"
    /\ full_memo' = full_coefficient_identifiers(order, kernel_dim)
    /\ n_computed' = n_computed + 1
    /\ t_result' = [t_result EXCEPT
           ![t] = Return(full_coefficient_identifiers(order, kernel_dim))]
    /\ t_pc' = [t_pc EXCEPT ![t] = "idle"]
    /\ UNCHANGED <<config, pc, locals, attrs, calls, t_op, t_arg, t_ncalls,
                   not_threads>>

\* self._storage_loc_dict[i]: _storage_loc_dict is a memoized METHOD and is
\* not called, so the bound method itself is subscripted
get_storage_index(i) == Raise("TypeError")

thread_get_storage_index(t) ==
    /\ \E i \in StorageArgs :
        /\ enter(t, "get_storage_index", i)
        /\ t_result' = [t_result EXCEPT ![t] = get_storage_index(i)]
    /\ UNCHANGED <<expansionVars, t_pc, n_computed, not_threads>>

NextThreads ==
    \/ precompute_begin
    \/ precompute_iter
    \/ precompute_finish
    \/ \E t \in Threads :
        \/ thread_get_full_coefficient_identifiers(t)
        \/ thread_get_coefficient_identifiers(t)
        \/ thread_compute_and_store(t)
        \/ thread_get_storage_index(t)

SpecThreads == InitThreads /\ [][NextThreads]_vars

\* a thread has returned from a call of one of the two identifier methods
ReturnedIdentifiers(t) ==
    /\ t_pc[t] = "idle"
    /\ t_op[t] \in {"get_full_coefficient_identifiers",
                    "get_coefficient_identifiers"}

\* executions of the body of get_full_coefficient_identifiers: the one of
\* precompute_coeff_matrix in the constructor, and those of the callers
FullComputations ==
    n_computed + (IF cls # Plain /\ pc # "init" THEN 1 ELSE 0)

\* C21: for one expansion instance, under any interleaving of concurrent
\* callers, the memoized identifier list is computed at most once and
\* every caller that has returned got the same list for the same method.
Claim_C21_ComputedAtMostOnce ==
    /\ FullComputations <= 1
    /\ \A t1 \in Threads, t2 \in Threads :
        (ReturnedIdentifiers(t1) /\ ReturnedIdentifiers(t2)
            /\ t_op[t1] = t_op[t2])
        => t_result[t1] = t_result[t2]

\* the position of an identifier in a list, 0-based as enumerate counts
PositionIn(list, i) == (CHOOSE n \in DOMAIN list : list[n] = i) - 1

\* C26: get_storage_index(i) returns the position of i in
\* get_coefficient_identifiers() for every stored identifier, and fails
\* with a lookup error for an identifier that is not stored.
Claim_C26_StorageIndex ==
    \A t \in Threads :
        (t_op[t] = "get_storage_index" /\ pc = "done") =>
            LET ids == IF cls = Plain THEN Full ELSE self_stored_identifiers
            IN  IF \E n \in DOMAIN ids : ids[n] = t_arg[t]
                THEN t_result[t] = Return(PositionIn(ids, t_arg[t]))
                ELSE t_result[t].raised \in {"KeyError", "IndexError"}

\* ===================================================== P2PBase.get_outputs
\* A P2P object is described here by what get_outputs and
\* get_kernel_scaling_assignments read: the shape of each of self.kernels
\* and self.strength_usage.  self.strength_usage comes in the two forms the
\* source uses: a list of integers (KernelComputation.__init__: its
\* docstring and its default [0] * len(kernels)), or one row of strength
\* indices per kernel (the form get_outputs and get_cache_key subscript
\* and iterate).
Shapes == (1..MaxShape) \X (1..MaxShape)

\* [0] * len(kernels)
default_strength_usage(kernels) ==
    [i \in DOMAIN kernels |-> [row |-> FALSE, index |-> <<0>>]]

\* one row per kernel: column col uses strength col
row_strength_usage(kernels) ==
    [i \in DOMAIN kernels |->
        [row |-> TRUE, index |-> [c \in 1..kernels[i][2] |-> c - 1]]]

P2PObjects ==
    {[kernels |-> ks, strength_usage |-> su] :
        ks \in SeqsUpTo(Shapes, MaxOutputKernels) \ {<<>>},
        su \in {"default", "rows"}}

strength_usage_of(self) ==
    IF self.strength_usage = "default"
    THEN default_strength_usage(self.kernels)
    ELSE row_strength_usage(self.kernels)

\* "knl_%d_scaling" % i and "knl_{}_scaling".format(n)
scaling_name(n) == <<"knl_", n, "_scaling">>

\* the names get_loopy_insns_and_result_names assigns: "knl{i}_{j}" for the
\* j-th expression of kernel i; a kernel has one expression per entry of
\* its shape
result_name(i, j) == <<"knl", i, "_", j>>

result_names(kernels) ==
    [n \in DOMAIN kernels |->
        [j \in 1..(kernels[n][1] * kernels[n][2]) |-> result_name(n - 1, j - 1)]]

\* lp.Assignment(assignee="knl_%d_scaling" % i,
\*               expression=kernel.get_global_scaling_const())
get_kernel_scaling_assignments(self) ==
    [n \in DOMAIN self.kernels |->
        [assignee |-> scaling_name(n - 1), scaling_const_of |-> n - 1]]

\* self.strength_usage[i][col] fails on an integer entry
subscript_fails(usage, kernels) ==
    \E n \in DOMAIN kernels : ~usage[n].row

\* results[row * knl.shape[1] + col] * strength[strength_usage[i][col], isrc]
\* summed over col
output_expr(results, usage, i, row, cols) ==
    [c \in 1..cols |->
        [result |-> results[i + 1][row * cols + (c - 1) + 1],
         strength |-> usage[i + 1].index[c]]]

\* the outputs of kernel i (0-based), one per row, with the scaling name
\* appended for each
kernel_outputs(results, usage, i, shape) ==
    [r \in 1..shape[1] |->
        [expr |-> output_expr(results, usage, i, r - 1, shape[2]),
         scale |-> scaling_name((r - 1) * shape[2])]]

RECURSIVE outputs_from(_, _, _, _)
outputs_from(kernels, results, usage, n) ==
    IF n > Len(kernels) THEN <<>>
    ELSE kernel_outputs(results, usage, n - 1, kernels[n])
         \o outputs_from(kernels, results, usage, n + 1)

get_outputs(self, names) ==
    LET usage == strength_usage_of(self)
    IN  IF subscript_fails(usage, self.kernels)
        THEN Raise("TypeError")
        ELSE LET outs == outputs_from(self.kernels, names, usage, 1)
             IN  Return([exprs |-> [n \in DOMAIN outs |-> outs[n].expr],
                         scaling |-> [n \in DOMAIN outs |-> outs[n].scale]])

InitOutputs ==
    /\ ExpansionIdle
    /\ TakerIdle
    /\ KernelIdle
    /\ ComputationIdle
    /\ ThreadsIdle
    /\ CacheIdle
    /\ OrderedSetIdle
    /\ out_self \in P2PObjects
    /\ out_called = FALSE
    /\ out_result = Return(<<>>)

call_get_outputs ==
    /\ ~out_called
    /\ out_called' = TRUE
    /\ out_result' = get_outputs(out_self, result_names(out_self.kernels))
    /\ UNCHANGED <<out_self, not_outputs>>

NextOutputs == call_get_outputs

SpecOutputs == InitOutputs /\ [][NextOutputs]_vars

\* the position in self.kernels of the kernel an output was formed for:
\* the i of the result names "knl{i}_{j}" its expression multiplies
KernelOfOutput(e) == e[1].result[2]

\* the scaling variables get_kernel_scaling_assignments defines
DefinedScaling ==
    {get_kernel_scaling_assignments(out_self)[n].assignee :
        n \in DOMAIN out_self.kernels}

\* C25: every output expression get_outputs produces for the kernel at
\* position i is paired with the scaling variable knl_i_scaling, the one
\* get_kernel_scaling_assignments defines from that kernel's scaling
\* constant, for every number of kernels and every kernel shape.
Claim_C25_OutputScaling ==
    (out_called /\ out_result.raised = "") =>
        LET v == out_result.value
        IN  /\ Len(v.exprs) = Len(v.scaling)
            /\ \A n \in DOMAIN v.exprs :
                /\ v.scaling[n] \in DefinedScaling
                /\ v.scaling[n] = scaling_name(KernelOfOutput(v.exprs[n]))

\* ======================================== KernelCacheWrapper, P2P objects
\* P2P objects sharing the process-wide code_cache.  The kernels handed to
\* the constructors are two kernel objects, 1 and 2 (compared by identity,
\* see Kernel_eq), of shape (1, 1).
kernel_shape(k) == <<1, 1>>

P2P == "P2P"

P2PFromCSR == "P2PFromCSR"

default_name(c) == IF c = P2P THEN "p2p" ELSE "p2p_from_csr"

\* constructor arguments: one P2P over the first kernel object, and the
\* arguments that differ from it in one place
BaseArgs ==
    [cls |-> P2P, kernels |-> <<1>>, value_dtypes |-> <<"float64">>,
     strength_usage |-> "rows", name |-> <<>>, exclude_self |-> FALSE,
     options |-> <<>>]

P2PArgs ==
    {BaseArgs,
     [BaseArgs EXCEPT !.cls = P2PFromCSR],
     [BaseArgs EXCEPT !.kernels = <<2>>],
     [BaseArgs EXCEPT !.value_dtypes = <<"complex128">>],
     [BaseArgs EXCEPT !.strength_usage = "default"],
     [BaseArgs EXCEPT !.name = Some("custom")],
     [BaseArgs EXCEPT !.exclude_self = TRUE],
     [BaseArgs EXCEPT !.options = <<"-O2">>]}

\* the attributes P2PBase.__init__ and KernelComputation.__init__ set;
\* options is not kept
P2PBase_init(args) ==
    [cls |-> args.cls, kernels |-> args.kernels,
     value_dtypes |-> args.value_dtypes,
     strength_usage |-> args.strength_usage,
     name |-> IF args.name = <<>> THEN default_name(args.cls)
              ELSE args.name[1],
     exclude_self |-> args.exclude_self]

\* what get_outputs reads of the object
outputs_view(self) ==
    [kernels |-> [i \in DOMAIN self.kernels |-> kernel_shape(self.kernels[i])],
     strength_usage |-> self.strength_usage]

\* tuple(tuple(s) for s in self.strength_usage) iterates every entry, which
\* fails on an integer
get_cache_key(self) ==
    LET usage == strength_usage_of(outputs_view(self))
    IN  IF \E i \in DOMAIN usage : ~usage[i].row
        THEN Raise("TypeError")
        ELSE Return(<<self.cls, self.kernels, self.exclude_self,
                      [i \in DOMAIN usage |-> usage[i].index],
                      self.value_dtypes>>)

\* the keyword arguments __call__ passes, in the order it writes them;
\* targets and sources are both object arrays or both plain arrays
KwargsOf(c) ==
    IF c = P2P
    THEN {<<<<"targets_is_obj_array", t>>, <<"sources_is_obj_array", t>>>> :
            t \in BOOLEAN}
    ELSE {<<>>}

\* the order of the keyword names as strings
kwarg_rank(k) == IF k = "sources_is_obj_array" THEN 1 ELSE 2

\* sorted(six.iteritems(kwargs))
sorted_items(kwargs) ==
    [n \in DOMAIN kwargs |->
        kwargs[CHOOSE i \in DOMAIN kwargs :
            Cardinality({j \in DOMAIN kwargs :
                kwarg_rank(kwargs[j][1]) < kwarg_rank(kwargs[i][1])}) = n - 1]]

kwarg(kwargs, k) == kwargs[CHOOSE i \in DOMAIN kwargs : kwargs[i][1] = k][2]

\* cache_key = self.get_cache_key() + tuple(sorted(kwargs items))
\*             + (DATA_MODEL_VERSION,) + (KERNEL_VERSION,) + (OPT_ENABLED,)
composite_cache_key(self, kwargs, opt) ==
    LET key == get_cache_key(self)
    IN  IF key.raised # "" THEN key
        ELSE Return(key.value \o sorted_items(kwargs)
                    \o <<"DATA_MODEL_VERSION">> \o <<"KERNEL_VERSION">>
                    \o <<opt>>)

\* the loopy kernel get_kernel makes, by what it is made from
get_kernel(self) ==
    LET outs == get_outputs(outputs_view(self),
                            result_names(outputs_view(self).kernels))
    IN  IF outs.raised # "" THEN outs
        ELSE Return([cls |-> self.cls, kernels |-> self.kernels,
                     value_dtypes |-> self.value_dtypes,
                     strength_usage |-> self.strength_usage,
                     name |-> self.name,
                     exclude_self |-> self.exclude_self,
                     outputs |-> outs.value,
                     transformations |-> <<>>])

get_optimized_kernel(self, kwargs) ==
    LET knl == get_kernel(self)
    IN  IF knl.raised # "" THEN knl
        ELSE Return([knl.value EXCEPT !.transformations =
                IF self.cls = P2P
                THEN (IF kwarg(kwargs, "sources_is_obj_array")
                      THEN <<"tag sources">> ELSE <<>>)
                     \o (IF kwarg(kwargs, "targets_is_obj_array")
                         THEN <<"tag targets">> ELSE <<>>)
                     \o <<"split itgt">>
                ELSE <<"split itgt_box">>])

\* if OPT_ENABLED: knl = self.get_optimized_kernel(**kwargs)
\* else: knl = self.get_kernel()
build(self, kwargs, opt) ==
    IF opt THEN get_optimized_kernel(self, kwargs) ELSE get_kernel(self)

\* code_cache[key] and code_cache.store_if_not_present(key, knl)
code_cache_has(cache, key) == dict_has(cache, key)

store_if_not_present(cache, key, knl) ==
    IF dict_has(cache, key) THEN cache ELSE dict_set(cache, key, knl)

InitCache ==
    /\ ExpansionIdle
    /\ TakerIdle
    /\ KernelIdle
    /\ ComputationIdle
    /\ ThreadsIdle
    /\ OutputsIdle
    /\ OrderedSetIdle
    /\ CACHING_ENABLED \in BOOLEAN
    /\ OPT_ENABLED \in BOOLEAN
    /\ objects = <<>>
    /\ code_cache = <<>>
    /\ cached_memo = <<>>
    /\ cache_self = 0
    /\ cache_kwargs = <<>>
    /\ cache_result = Return(<<>>)
    /\ cache_read = FALSE
    /\ cache_built = FALSE
    /\ cache_calls = 0

new_P2P ==
    /\ Len(objects) < MaxObjects
    /\ \E args \in P2PArgs : objects' = Append(objects, P2PBase_init(args))
    /\ cached_memo' = Append(cached_memo, <<>>)
    /\ UNCHANGED <<CACHING_ENABLED, OPT_ENABLED, code_cache, cache_self,
                   cache_kwargs, cache_result, cache_read, cache_built,
                   cache_calls, not_cache>>

\* the frame of a call of get_cached_optimized_kernel
called(i, kwargs) ==
    /\ cache_self' = i
    /\ cache_kwargs' = kwargs
    /\ cache_calls' = cache_calls + 1
    /\ UNCHANGED <<CACHING_ENABLED, OPT_ENABLED, objects, not_cache>>

\* the memoize_method wrapper finds the keyword arguments in the object's
\* dictionary
memo_hit(i, kwargs) ==
    /\ dict_has(cached_memo[i], sorted_items(kwargs))
    /\ cache_result' = Return(dict_get(cached_memo[i], sorted_items(kwargs)))
    /\ cache_read' = FALSE
    /\ cache_built' = FALSE
    /\ UNCHANGED <<code_cache, cached_memo>>

\* the method raised: nothing is memoized or stored
failed(exception) ==
    /\ cache_result' = exception
    /\ UNCHANGED <<code_cache, cached_memo>>

memoize(i, kwargs, knl) ==
    cached_memo' = [cached_memo EXCEPT
                        ![i] = dict_set(@, sorted_items(kwargs), knl)]

\* the method body with CACHING_ENABLED
body_caching(i, kwargs) ==
    LET key == composite_cache_key(objects[i], kwargs, OPT_ENABLED)
        knl == build(objects[i], kwargs, OPT_ENABLED)
    IN  IF key.raised # ""
        THEN /\ failed(key)
             /\ cache_read' = FALSE
             /\ cache_built' = FALSE
        ELSE IF code_cache_has(code_cache, key.value)
        THEN /\ cache_result' = Return(dict_get(code_cache, key.value))
             /\ memoize(i, kwargs, dict_get(code_cache, key.value))
             /\ cache_read' = TRUE
             /\ cache_built' = FALSE
             /\ UNCHANGED code_cache
        ELSE /\ cache_read' = TRUE
             /\ cache_built' = TRUE
             /\ IF knl.raised # ""
                THEN failed(knl)
                ELSE /\ code_cache' =
                            store_if_not_present(code_cache, key.value, knl.value)
                     /\ cache_result' = knl
                     /\ memoize(i, kwargs, knl.value)

\* the method body without it
body_not_caching(i, kwargs) ==
    LET knl == build(objects[i], kwargs, OPT_ENABLED)
    IN  /\ cache_read' = FALSE
        /\ cache_built' = TRUE
        /\ IF knl.raised # ""
           THEN failed(knl)
           ELSE /\ cache_result' = knl
                /\ memoize(i, kwargs, knl.value)
                /\ UNCHANGED code_cache

\* the body without the lookup in code_cache
get_cached_optimized_kernel_always_builds(i, kwargs) ==
    IF dict_has(cached_memo[i], sorted_items(kwargs))
    THEN memo_hit(i, kwargs)
    ELSE body_not_caching(i, kwargs)

get_cached_optimized_kernel(i, kwargs) ==
    IF dict_has(cached_memo[i], sorted_items(kwargs))
    THEN memo_hit(i, kwargs)
    ELSE IF CACHING_ENABLED
    THEN body_caching(i, kwargs)
    ELSE body_not_caching(i, kwargs)

call_get_cached_optimized_kernel ==
    /\ cache_calls < MaxCachedCalls
    /\ \E i \in DOMAIN objects :
        \E kwargs \in KwargsOf(objects[i].cls) :
            /\ called(i, kwargs)
            /\ get_cached_optimized_kernel(i, kwargs)

NextCache ==
    \/ new_P2P
    \/ call_get_cached_optimized_kernel

SpecCache == InitCache /\ [][NextCache]_vars

\* the calls the objects of the model take: an object and keyword arguments
\* its class accepts
CallsOfObjects ==
    {c \in (DOMAIN objects) \X (KwargsOf(P2P) \cup KwargsOf(P2PFromCSR)) :
        c[2] \in KwargsOf(objects[c[1]].cls)}

\* C22: the composite cache key is unique per (kernel set, options)
\* combination: two computations for which get_kernel() or
\* get_optimized_kernel() build different kernels never have the same
\* composite key.
Claim_C22_CompositeKeyUnique ==
    \A a \in CallsOfObjects, b \in CallsOfObjects :
        LET key_a == composite_cache_key(objects[a[1]], a[2], OPT_ENABLED)
            key_b == composite_cache_key(objects[b[1]], b[2], OPT_ENABLED)
            knl_a == build(objects[a[1]], a[2], OPT_ENABLED)
            knl_b == build(objects[b[1]], b[2], OPT_ENABLED)
        IN  (/\ key_a.raised = ""
             /\ key_b.raised = ""
             /\ knl_a.raised = ""
             /\ knl_b.raised = ""
             /\ knl_a.value # knl_b.value)
            => key_a.value # key_b.value

\* the composite key of the call that was just made
KeyOfCall ==
    composite_cache_key(objects[cache_self'], cache_kwargs', OPT_ENABLED)

\* C24: for any sequence of get_cached_optimized_kernel calls from any
\* objects, with caching enabled a kernel is built only when the composite
\* key is absent from code_cache at lookup time, after a call returns
\* code_cache holds an entry for its key, no existing entry is ever
\* overwritten, and a call whose key is present returns the stored entry
\* without building; with caching disabled code_cache is neither read nor
\* written.
Thm_C24_CodeCache ==
    [][cache_calls' = cache_calls + 1 =>
        IF CACHING_ENABLED
        THEN /\ \A n \in DOMAIN code_cache :
                    n \in DOMAIN code_cache' /\ code_cache'[n] = code_cache[n]
             /\ KeyOfCall.raised = "" =>
                /\ cache_built' => ~code_cache_has(code_cache, KeyOfCall.value)
                /\ cache_result'.raised = ""
                    => code_cache_has(code_cache', KeyOfCall.value)
                /\ code_cache_has(code_cache, KeyOfCall.value) =>
                    /\ ~cache_built'
                    /\ cache_result'
                        = Return(dict_get(code_cache, KeyOfCall.value))
        ELSE /\ code_cache' = code_cache
             /\ ~cache_read'
             /\ code_cache = <<>>]_vars

\* a call found in code_cache the kernel another object had stored
Wit_C24_CodeCache ==
    /\ CACHING_ENABLED
    /\ cache_read
    /\ ~cache_built
    /\ cache_result.raised = ""
    /\ Len(code_cache) = 1
    /\ \E j \in DOMAIN objects : j # cache_self /\ cached_memo[j] # <<>>

\* ------------------------------------------------------------------ C23
\* the wranglers that answer only relations over cached entries
CachedOperandWranglers == {"Laplace", "Helmholtz"}

\* the last step (axis, next_mi) of the walk of the call just made
LastStep ==
    LET steps == get_derivative_taking_sequence(closest_mi', diff_mi')
    IN  steps[Len(steps)]

\* the cache as the last step of the walk found it
CacheBeforeLastStep == SubSeq(cache_by_mi', 1, Len(cache_by_mi') - 1)

\* C23: in the recurrence-aware taker every step of the walk asks the
\* wrangler about the new multi-index and the current cache; with a
\* relation the value cached for the new multi-index is the sum of
\* coefficient * cache_by_mi[ident] over the relation, without it the
\* previous expression differentiated once by the variable of the axis of
\* the step; in both cases the call leaves the cache with exactly the keys
\* the plain taker would leave it with.  (Checked on the last step of every
\* call: every multi-index is the target of a call from every cache.)
Thm_C23_RecurrenceAwareDiff ==
    [][(/\ taker_cls = LinearRecurrenceBasedMiDerivativeTaker
        /\ diff_calls' = diff_calls + 1)
       => /\ wrangler \in CachedOperandWranglers => diff_status' = "ok"
          /\ diff_status' = "ok" =>
             /\ dict_keys(cache_by_mi')
                    = dict_keys(MiDerivativeTaker_diff(cache_by_mi, diff_mi').cache)
             /\ nwrites' >= 1 =>
                /\ next_mi' = LastStep[2]
                /\ cache_by_mi'[Len(cache_by_mi')][1] = next_mi'
                /\ recurrence' = wrangler_try_get_recurrence_for_derivative(
                                     wrangler, next_mi', CacheBeforeLastStep)
                /\ dict_get(cache_by_mi', next_mi') =
                    IF recurrence' # None
                    THEN Add([i \in 1..Len(recurrence') |->
                                <<recurrence'[i][2],
                                  dict_get(CacheBeforeLastStep,
                                           recurrence'[i][1])>>])
                    ELSE expr_diff(
                            dict_get(cache_by_mi',
                                     [next_mi' EXCEPT ![LastStep[1]] = @ - 1]),
                            LastStep[1])]_vars

\* a call walked two steps or more and cached the last one from a relation
Wit_C23_RecurrenceAwareDiff ==
    /\ taker_cls = LinearRecurrenceBasedMiDerivativeTaker
    /\ diff_status = "ok"
    /\ recurrence # None
    /\ nwrites >= 2
    /\ dict_has(cache_by_mi, next_mi)

\* ======================================== remove_axis_target_derivatives
\* The result of remove_axis_target_derivatives(kernel): a reference to a
\* kernel, or None where the function runs off its end without a return.
\* kernel.replace_inner_kernel(inner) constructs a wrapper of the class of
\* kernel around inner, KernelWrapper.__init__ reads inner.dimensions, and
\* the new wrapper is dropped at once; the heap keeps no trace of it.
RECURSIVE remove_axis_target_derivatives(_, _)
remove_axis_target_derivatives(h, k) ==
    IF h[k].cls = AxisTargetDerivative
    THEN remove_axis_target_derivatives(h, h[k].kernel)
    ELSE IF h[k].cls \in KernelWrappers
    THEN LET inner == remove_axis_target_derivatives(h, h[k].kernel)
         IN  IF inner.raised # "" THEN inner
             ELSE IF inner.value = None THEN Raise("AttributeError")
             ELSE Return(None)
    ELSE Return(Some(k))

call_remove_axis_target_derivatives ==
    call("remove_axis_target_derivatives", <<newest>>,
         remove_axis_target_derivatives(heap, newest))

NextRemove ==
    \/ new_LaplaceKernel
    \/ new_HelmholtzKernel
    \/ new_DifferenceKernel
    \/ new_AxisTargetDerivative
    \/ new_DirectionalTargetDerivative
    \/ new_DirectionalSourceDerivative
    \/ call_remove_axis_target_derivatives

SpecRemove == InitKernel /\ [][NextRemove]_vars

\* the classes of the wrappers around a kernel, outermost first, without
\* the AxisTargetDerivative wrappers, and the kernel they end at
RECURSIVE WrappersKept(_, _)
WrappersKept(h, k) ==
    IF h[k].cls \notin KernelWrappers THEN <<k>>
    ELSE IF h[k].cls = AxisTargetDerivative THEN WrappersKept(h, h[k].kernel)
    ELSE <<h[k].cls>> \o WrappersKept(h, h[k].kernel)

\* the same, with every wrapper
RECURSIVE WrappersOf(_, _)
WrappersOf(h, k) ==
    IF h[k].cls \notin KernelWrappers THEN <<k>>
    ELSE <<h[k].cls>> \o WrappersOf(h, h[k].kernel)

\* C27: remove_axis_target_derivatives returns a kernel that is the input
\* with every AxisTargetDerivative wrapper removed: the same base kernel
\* under the other wrappers in their nesting order, and an unwrapped kernel
\* is returned as it is.  (The call leaves the heap alone: see call.)
Claim_C27_AxisDerivativesRemoved ==
    kernel_op = "remove_axis_target_derivatives" =>
        /\ kernel_result.raised = ""
        /\ kernel_result.value # None
        /\ kernel_result.value[1] \in DOMAIN heap
        /\ WrappersOf(heap, kernel_result.value[1])
            = WrappersKept(heap, kernel_args[1])

\* ============================================================= OrderedSet
\* The set is self.map and the doubly linked list of cells [key, prev, next]
\* that starts and ends at the sentinel self.end.  A cell is named by its
\* node: 0 for the sentinel, the key for the cell of a key (a key has at
\* most one cell at a time); a node without a cell holds <<>>.  Positions
\* 1, 2, 3 of a cell are the indices 0, 1, 2 of the Python list.
End == 0

Keys == 1..MaxKeys

\* self.end = end = []; end += [None, end, end]; self.map = {}
OrderedSet_empty ==
    [map |-> {},
     nodes |-> [n \in 0..MaxKeys |-> IF n = End THEN <<None, End, End>>
                                     ELSE <<>>]]

map_has(map, key) == \E p \in map : p[1] = key

map_get(map, key) == (CHOOSE p \in map : p[1] = key)[2]

\* a key that is present is moved to the end
OrderedSet_add_moves_to_end(s, key) ==
    LET node == IF map_has(s.map, key) THEN s.nodes[map_get(s.map, key)]
                ELSE <<key, End, End>>
        unlinked == IF map_has(s.map, key)
                    THEN [[s.nodes EXCEPT ![node[2]][3] = node[3]]
                             EXCEPT ![node[3]][2] = node[2]]
                    ELSE s.nodes
        curr == unlinked[End][2]
        allocated == [unlinked EXCEPT ![key] = <<key, curr, End>>]
        linked == [allocated EXCEPT ![curr][3] = key]
    IN  [map |-> s.map \cup {<<key, key>>},
         nodes |-> [linked EXCEPT ![End][2] = key]]

\* if key not in self.map:
\*     end = self.end; curr = end[1]
\*     curr[2] = end[1] = self.map[key] = [key, curr, end]
\* (the targets are assigned from left to right)
OrderedSet_add(s, key) ==
    IF map_has(s.map, key) THEN s
    ELSE LET curr == s.nodes[End][2]
             allocated == [s.nodes EXCEPT ![key] = <<key, curr, End>>]
             linked == [allocated EXCEPT ![curr][3] = key]
         IN  [map |-> s.map \cup {<<key, key>>},
              nodes |-> [linked EXCEPT ![End][2] = key]]

\* if key in self.map:
\*     key, prev, next = self.map.pop(key); prev[2] = next; next[1] = prev
OrderedSet_discard(s, key) ==
    IF ~map_has(s.map, key) THEN s
    ELSE LET node == map_get(s.map, key)
             prev == s.nodes[node][2]
             next == s.nodes[node][3]
             freed == [s.nodes EXCEPT ![node] = <<>>]
             forward == [freed EXCEPT ![prev][3] = next]
         IN  [map |-> s.map \ {<<key, node>>},
              nodes |-> [forward EXCEPT ![next][2] = prev]]

\* self |= iterable
RECURSIVE OrderedSet_ior(_, _, _)
OrderedSet_ior(s, iterable, i) ==
    IF i > Len(iterable) THEN s
    ELSE OrderedSet_ior(OrderedSet_add(s, iterable[i]), iterable, i + 1)

OrderedSet_init(iterable) ==
    IF iterable = None THEN OrderedSet_empty
    ELSE OrderedSet_ior(OrderedSet_empty, iterable[1], 1)

\* curr = end[2]; while curr is not end: yield curr[0]; curr = curr[2]
\* (steps bounds the walk, which in a broken list would not end)
RECURSIVE walk(_, _, _, _)
walk(nodes, curr, direction, steps) ==
    IF curr = End \/ steps = 0 THEN <<>>
    ELSE <<nodes[curr][1]>>
         \o walk(nodes, nodes[curr][direction], direction, steps - 1)

OrderedSet_iter(s) == walk(s.nodes, s.nodes[End][3], 3, MaxKeys + 1)

OrderedSet_reversed(s) == walk(s.nodes, s.nodes[End][2], 2, MaxKeys + 1)

OrderedSet_len(s) == Cardinality(s.map)

\* the first and the last key change places
OrderedSet_pop_swapped(s, last) ==
    IF OrderedSet_len(s) = 0
    THEN <<s, Raise("KeyError")>>
    ELSE LET key == IF last THEN s.nodes[s.nodes[End][3]][1]
                    ELSE s.nodes[s.nodes[End][2]][1]
         IN  <<OrderedSet_discard(s, key), Return(key)>>

\* the set pop leaves and what it returns or raises:
\* if not self: raise KeyError('set is empty')
\* key = self.end[1][0] if last else self.end[2][0]
\* self.discard(key); return key
OrderedSet_pop(s, last) ==
    IF OrderedSet_len(s) = 0
    THEN <<s, Raise("KeyError")>>
    ELSE LET key == IF last THEN s.nodes[s.nodes[End][2]][1]
                    ELSE s.nodes[s.nodes[End][3]][1]
         IN  <<OrderedSet_discard(s, key), Return(key)>>

self_set == [map |-> os_map, nodes |-> os_nodes]

\* OrderedSet() and OrderedSet(iterable)
InitOrderedSet ==
    /\ ExpansionIdle
    /\ TakerIdle
    /\ KernelIdle
    /\ ComputationIdle
    /\ ThreadsIdle
    /\ OutputsIdle
    /\ CacheIdle
    /\ os_op = "__init__"
    /\ os_arg \in {None} \cup {Some(l) : l \in SeqsUpTo(Keys, 2)}
    /\ os_map = OrderedSet_init(os_arg).map
    /\ os_nodes = OrderedSet_init(os_arg).nodes
    /\ os_result = Return(<<>>)
    /\ os_nops = 0

operation(name, argument, s, out) ==
    /\ os_nops < MaxSetOps
    /\ os_op' = name
    /\ os_arg' = argument
    /\ os_map' = s.map
    /\ os_nodes' = s.nodes
    /\ os_result' = out
    /\ os_nops' = os_nops + 1
    /\ UNCHANGED not_orderedSet

call_add ==
    \E key \in Keys :
        operation("add", <<key>>, OrderedSet_add(self_set, key), Return(None))

call_discard ==
    \E key \in Keys :
        operation("discard", <<key>>, OrderedSet_discard(self_set, key),
                  Return(None))

call_pop ==
    \E last \in BOOLEAN :
        operation("pop", <<last>>, OrderedSet_pop(self_set, last)[1],
                  OrderedSet_pop(self_set, last)[2])

call_iter ==
    operation("__iter__", <<>>, self_set, Return(OrderedSet_iter(self_set)))

call_reversed ==
    operation("__reversed__", <<>>, self_set,
              Return(OrderedSet_reversed(self_set)))

call_len ==
    operation("__len__", <<>>, self_set, Return(OrderedSet_len(self_set)))

call_contains ==
    \E key \in Keys :
        operation("__contains__", <<key>>, self_set,
                  Return(map_has(os_map, key)))

NextOrderedSet ==
    \/ call_add
    \/ call_discard
    \/ call_pop
    \/ call_iter
    \/ call_reversed
    \/ call_len
    \/ call_contains

SpecOrderedSet == InitOrderedSet /\ [][NextOrderedSet]_vars

\* ------------------------------------------------------------------ C28
\* the keys of a sequence in the order of their first occurrence
RECURSIVE FirstOccurrences(_)
FirstOccurrences(l) ==
    IF l = <<>> THEN <<>>
    ELSE LET front == FirstOccurrences(SubSeq(l, 1, Len(l) - 1))
             x == l[Len(l)]
         IN  IF \E i \in DOMAIN front : front[i] = x THEN front
             ELSE Append(front, x)

Without(l, x) == SelectSeq(l, LAMBDA y : y # x)

Reverse(l) == [i \in 1..Len(l) |-> l[Len(l) + 1 - i]]

\* the keys in iteration order, before and after a step
Order == OrderedSet_iter(self_set)

OrderAfter == OrderedSet_iter([map |-> os_map', nodes |-> os_nodes'])

\* map and list hold the same keys, none of them twice, and the backward
\* walk is the forward walk reversed
Linked ==
    /\ {p[1] : p \in os_map} = {Order[i] : i \in DOMAIN Order}
    /\ Len(Order) = Cardinality(os_map)
    /\ OrderedSet_reversed(self_set) = Reverse(Order)

\* C28: the keys of map are the keys reachable along the list from the
\* sentinel; iteration yields the keys in the order of their most recent
\* insertion while absent (adding a present key does not move it);
\* reversed iteration is the exact reverse; pop(last=True) removes and
\* returns the last key of that order, pop(last=False) the first; pop on
\* an empty set raises KeyError and leaves the set unchanged.
Thm_C28_OrderedSet ==
    /\ (Linked /\ (os_arg # None => Order = FirstOccurrences(os_arg[1]))
               /\ (os_arg = None => Order = <<>>))
    /\ [][/\ Linked'
          /\ os_op' = "add" =>
                OrderAfter = IF \E i \in DOMAIN Order : Order[i] = os_arg'[1]
                             THEN Order ELSE Append(Order, os_arg'[1])
          /\ os_op' = "discard" => OrderAfter = Without(Order, os_arg'[1])
          /\ (os_op' = "pop" /\ Order # <<>>) =>
                LET key == IF os_arg'[1] THEN Order[Len(Order)] ELSE Order[1]
                IN  /\ os_result' = Return(key)
                    /\ OrderAfter = Without(Order, key)
          /\ (os_op' = "pop" /\ Order = <<>>) =>
                /\ os_result'.raised = "KeyError"
                /\ os_map' = os_map
                /\ os_nodes' = os_nodes
          /\ os_op' \in {"__iter__", "__reversed__", "__len__", "__contains__"}
                => OrderAfter = Order
          /\ os_op' = "__iter__" => os_result' = Return(Order)
          /\ os_op' = "__reversed__" => os_result' = Return(Reverse(Order))
       ]_vars

\* pop(last=True) on the keys 3, 1, 2 (in that order) returned 2 and left
\* 3, 1
Wit_C28_OrderedSet ==
    /\ os_op = "pop"
    /\ os_arg = <<TRUE>>
    /\ os_result = Return(2)
    /\ Order = <<3, 1>>
    /\ Linked

====
